---- MODULE Spec2Model ----
(***************************************************************************)
(* Model of Source/CParse/templ.c (SWIG template instantiation core):      *)
(* does_parm_match, template_locate, Swig_cparse_template_locate,          *)
(* expand_variadic_parms / cparse_template_expand /                        *)
(* Swig_cparse_template_expand, and Swig_cparse_template_parms_expand.     *)
(* SwigType strings are modelled as TLA+ strings, character by character.  *)
(***************************************************************************)
EXTENDS Integers, Sequences, FiniteSets, TLC

VARIABLES
    pc,        \* where the run is: "start"/"done" (does_parm_match), "parsing"
               \* (%template requests), "template"/"expanded"/"aborted"
               \* (expansion), "instantiating"/"prepared" (argument preparation)
    m_in,      \* does_parm_match inputs: [type, partial, idx]
    m_out,     \* does_parm_match outputs: [match, priority]
    symtab,    \* the C symbol table: entries [name, node], first added first
    partials,  \* the primary template's "partials" attribute: symbol names
    instantiate, \* ids of the nodes whose "instantiate" flag is set
    req,       \* the last %template request: [parms, symname, line]
    loc,       \* what the last template_locate call computed
    ret,       \* id of the node Swig_cparse_template_locate returned last
    diag,      \* diagnostics the last locate call emitted, in order
    left,      \* %template requests still to come
    x_in,      \* Swig_cparse_template_expand inputs: [n, tparms, rname]
    x_out,     \* what the expansion left: [typelist, bases, tparms, failed, log]
    w_out,     \* what the walks left: the walker's static flag `expanded`,
               \* the number of expansions, and of the last one the
               \* template nodes and the destructors it visited
    d_in,      \* Swig_cparse_template_parms_expand inputs: [parms, primary]
    d_out,     \* the parameter list it returned
    v_in,      \* expand_variadic_parms inputs: [p, uvp, evp]
    v_out,     \* the attribute's parameter list it left
    fx         \* cparse_fix_function_decl: the decl and type it was first
               \* given, before and after the last call, and the calls made

matchVars == <<m_in, m_out>>
locVars == <<symtab, partials, instantiate, req, loc, ret, diag, left>>
expVars == <<x_in, x_out, w_out>>
parmVars == <<d_in, d_out>>
packVars == <<v_in, v_out>>
fixVars == <<fx>>
vars == <<pc, m_in, m_out, symtab, partials, instantiate, req, loc, ret, diag, left,
          x_in, x_out, w_out, d_in, d_out, v_in, v_out, fx>>

(***************************************************************************)
(* Strings (DOH) and the SwigType encoding                                 *)
(***************************************************************************)

\* a missing attribute (Getattr returning 0)
Null == "<null>"

IdChars ==
    { "a","b","c","d","e","f","g","h","i","j","k","l","m","n","o","p","q",
      "r","s","t","u","v","w","x","y","z",
      "A","B","C","D","E","F","G","H","I","J","K","L","M","N","O","P","Q",
      "R","S","T","U","V","W","X","Y","Z",
      "0","1","2","3","4","5","6","7","8","9","_" }

Ch(s, i) == SubSeq(s, i, i)

StartsAt(s, tok, i) ==
    /\ i + Len(tok) - 1 <= Len(s)
    /\ SubSeq(s, i, i + Len(tok) - 1) = tok

\* the positions of s where tok occurs as an identifier: the characters
\* around the occurrence are not identifier characters
Occurrences(s, tok) ==
    { i \in 1..Len(s) :
        /\ Len(tok) > 0
        /\ StartsAt(s, tok, i)
        /\ ~(i > 1 /\ Ch(s, i - 1) \in IdChars)
        /\ ~(i + Len(tok) <= Len(s) /\ Ch(s, i + Len(tok)) \in IdChars) }

\* s from position i on, with rep in place of tok at the positions occ
RECURSIVE ReplaceidFrom(_, _, _, _, _)
ReplaceidFrom(s, tok, rep, occ, i) ==
    IF occ = {} THEN SubSeq(s, i, Len(s))
    ELSE LET k == CHOOSE x \in occ : \A y \in occ : x <= y
         IN  SubSeq(s, i, k - 1) \o rep
             \o ReplaceidFrom(s, tok, rep, occ \ {k}, k + Len(tok))

\* Replace(s, tok, rep, DOH_REPLACE_ID): the text produced and the number
\* of replacements made
Replaceid(s, tok, rep) ==
    [str |-> ReplaceidFrom(s, tok, rep, Occurrences(s, tok), 1),
     n |-> Cardinality(Occurrences(s, tok))]

\* position of the last '.' of t at or before d that is outside
\* parentheses; 0 when there is none
LastDot(t, d) ==
    LET dots == { i \in 1..d :
                    /\ Ch(t, i) = "."
                    /\ Cardinality({ j \in (i + 1)..d : Ch(t, j) = ")" })
                       = Cardinality({ j \in (i + 1)..d : Ch(t, j) = "(" }) }
    IN  IF dots = {} THEN 0 ELSE CHOOSE x \in dots : \A y \in dots : y <= x

\* SwigType_base: the type without its leading type constructors
SwigType_base(t) ==
    LET d == IF Len(t) > 0 /\ Ch(t, Len(t)) = "." THEN Len(t) - 1 ELSE Len(t)
        k == LastDot(t, d)
    IN  IF k = 0 THEN t ELSE SubSeq(t, k + 1, Len(t))

\* SwigType_prefix: the leading type constructors of the type
SwigType_prefix(t) ==
    LET d == IF Len(t) > 0 /\ Ch(t, Len(t)) = "." THEN Len(t) - 1 ELSE Len(t)
        k == LastDot(t, d)
    IN  IF k = 0 THEN "" ELSE SubSeq(t, 1, k)

\* strstr(s, tok) != 0
Strstr(s, tok) == \E i \in 1..Len(s) : StartsAt(s, tok, i)

\* the typedefs in scope: Integer is int, IntPtr is int *
ReduceOnce(t) ==
    Replaceid(Replaceid(t, "Integer", "int").str, "IntPtr", "p.int").str

\* Swig_symbol_typedef_reduce: unfold every typedef name in the type (also
\* inside template arguments and function parameters) until none is left
RECURSIVE Swig_symbol_typedef_reduce(_)
Swig_symbol_typedef_reduce(t) ==
    LET r == ReduceOnce(t)
    IN  IF r = t THEN t ELSE Swig_symbol_typedef_reduce(r)

\* Swig_symbol_type_qualify: Vec is declared in namespace ns; a name that is
\* already qualified is left alone
Swig_symbol_type_qualify(t) ==
    IF Strstr(t, "::") THEN t ELSE Replaceid(t, "Vec", "ns::Vec").str

\* Strncmp(a, b, len) == 0
Strncmp0(a, b, len) ==
    LET la == IF Len(a) < len THEN Len(a) ELSE len
        lb == IF Len(b) < len THEN Len(b) ELSE len
    IN  la = lb /\ SubSeq(a, 1, la) = SubSeq(b, 1, lb)

(***************************************************************************)
(* does_parm_match                                                         *)
(***************************************************************************)

ExactNoMatch == -2
PartiallySpecializedNoMatch == -1
PartiallySpecializedMatch == 1
ExactMatch == 2
EXACT_MATCH_PRIORITY == 99999

\* "$<i>", as sprintf(tmp, "$%d", i) writes it
DollarVar(i) == "$" \o (CASE i = 1 -> "1" [] i = 2 -> "2" [] i = 3 -> "3"
                          [] i = 4 -> "4" [] OTHER -> "5")

\* does_parm_match with the deduced-match test taken for any substitution
does_parm_match_anysubst(type, partial_parm_type, partial_parm_type_base) ==
    LET ty == Swig_symbol_typedef_reduce(type)
        base == SwigType_base(ty)
        r == Replaceid(partial_parm_type, partial_parm_type_base, base)
        tt == Replaceid(partial_parm_type, partial_parm_type_base, "").str
    IN  IF r.n >= 1
        THEN IF Strncmp0(tt, ty, Len(tt))
             THEN [match |-> PartiallySpecializedMatch, priority |-> Len(tt)]
             ELSE [match |-> PartiallySpecializedNoMatch, priority |-> -1]
        ELSE IF ty = r.str
             THEN [match |-> ExactMatch, priority |-> EXACT_MATCH_PRIORITY]
             ELSE [match |-> ExactNoMatch, priority |-> -1]

does_parm_match(type, partial_parm_type, partial_parm_type_base) ==
    LET ty == Swig_symbol_typedef_reduce(type)
        base == SwigType_base(ty)
        r == Replaceid(partial_parm_type, partial_parm_type_base, base)
        t == r.str
        substitutions == r.n
        matches == (ty = t)
    IN  IF substitutions = 1
        THEN LET tt == Replaceid(partial_parm_type, partial_parm_type_base, "").str
                 len == Len(tt)
             IN  IF Strncmp0(tt, ty, len)
                 THEN [match |-> PartiallySpecializedMatch, priority |-> len]
                 ELSE [match |-> PartiallySpecializedNoMatch, priority |-> -1]
        ELSE [match |-> IF matches THEN ExactMatch ELSE ExactNoMatch,
              priority |-> IF matches THEN EXACT_MATCH_PRIORITY ELSE -1]

(***************************************************************************)
(* Parameter lists (ParmList) and nodes                                    *)
(***************************************************************************)

\* a template argument as the parser hands it over: a type, nothing else
Parm(type) == [name |-> Null, type |-> type, value |-> Null, default |-> FALSE]

\* a template parameter of a declaration: name, type, default value
TParm(name, type, value) ==
    [name |-> name, type |-> type, value |-> value, default |-> FALSE]

ParmList_len(p) == Len(p)

\* SwigType_isvariadic: the type starts with the variadic marker
SwigType_isvariadic(t) == StartsAt(t, "v.", 1)

\* ParmList_variadic_parm: position of the last parameter when it is
\* variadic, 0 otherwise
ParmList_variadic_parm(p) ==
    IF Len(p) > 0 /\ SwigType_isvariadic(p[Len(p)].type) THEN Len(p) ELSE 0

\* ParmList_numrequired: the parameters before the first one with a default
RECURSIVE NumRequiredFrom(_, _)
NumRequiredFrom(p, i) ==
    IF i > Len(p) \/ p[i].value # Null THEN 0 ELSE 1 + NumRequiredFrom(p, i + 1)

ParmList_numrequired(p) == NumRequiredFrom(p, 1)

\* the text a parameter contributes: its value, else its type
ParmText(p) == IF p.value # Null THEN p.value ELSE p.type

\* SwigType_add_template: "<(a,b)>", parameters marked default left out
RECURSIVE TemplateArgsFrom(_, _)
TemplateArgsFrom(parms, i) ==
    IF i > Len(parms) THEN ""
    ELSE IF parms[i].default THEN TemplateArgsFrom(parms, i + 1)
    ELSE (IF i > 1 THEN "," ELSE "") \o ParmText(parms[i])
             \o TemplateArgsFrom(parms, i + 1)

SwigType_add_template(t, parms) == t \o "<(" \o TemplateArgsFrom(parms, 1) \o ")>"

\* a default value with the names of the template parameters replaced by the
\* arguments given so far
RECURSIVE SubstDefault(_, _, _, _)
SubstDefault(value, parms, targs, j) ==
    IF j > Len(parms) \/ j > Len(targs) THEN value
    ELSE SubstDefault(
             Replaceid(value, targs[j].name,
                       Swig_symbol_type_qualify(ParmText(parms[j]))).str,
             parms, targs, j + 1)

\* Swig_symbol_template_defargs: append the primary's default arguments to
\* the argument list, up to the first parameter without a default
RECURSIVE DefargsFrom(_, _, _)
DefargsFrom(parms, targs, i) ==
    IF i > Len(targs) \/ targs[i].value = Null THEN parms
    ELSE DefargsFrom(
             Append(parms, Parm(Swig_symbol_type_qualify(
                                    SubstDefault(targs[i].value, parms, targs, 1)))),
             targs, i + 1)

Swig_symbol_template_defargs(parms, targs) ==
    IF Len(parms) < Len(targs) THEN DefargsFrom(parms, targs, Len(parms) + 1)
    ELSE parms

\* A node of the parse tree, with the attributes templ.c reads.
Node(id, nodeType, templatetype, templateparms, partialparms, line) ==
    [id |-> id, nodeType |-> nodeType, templatetype |-> templatetype,
     templateparms |-> templateparms, partialparms |-> partialparms,
     line |-> line, hidden |-> FALSE, symname |-> Null, template |-> Null]

NoNode == Node("none", Null, Null, <<>>, <<>>, 0)

\* Swig_symbol_clookup / Swig_symbol_clookup_local: the first node added
\* under the name
RECURSIVE LookupFrom(_, _, _)
LookupFrom(tab, name, i) ==
    IF i > Len(tab) THEN NoNode
    ELSE IF tab[i].name = name THEN tab[i].node
    ELSE LookupFrom(tab, name, i + 1)

Swig_symbol_clookup(tab, name) == LookupFrom(tab, name, 1)

\* the node with a given id
RECURSIVE NodeByIdFrom(_, _, _)
NodeByIdFrom(tab, id, i) ==
    IF i > Len(tab) THEN NoNode
    ELSE IF tab[i].node.id = id THEN tab[i].node
    ELSE NodeByIdFrom(tab, id, i + 1)

NodeById(tab, id) == NodeByIdFrom(tab, id, 1)

\* position of a node in the table
RECURSIVE IndexOfFrom(_, _, _)
IndexOfFrom(tab, id, i) ==
    IF i > Len(tab) THEN 0
    ELSE IF tab[i].node.id = id THEN i
    ELSE IndexOfFrom(tab, id, i + 1)

\* "sym:nextSibling" / "csym:nextSibling": the next node added under the
\* same name
NextSibling(tab, n) ==
    LET i == IndexOfFrom(tab, n.id, 1)
    IN  IF i = 0 THEN NoNode ELSE
        LET later == { j \in (i + 1)..Len(tab) : tab[j].name = tab[i].name }
        IN  IF later = {} THEN NoNode
            ELSE tab[CHOOSE j \in later : \A k \in later : j <= k].node

\* a diagnostic: its kind, the line it is reported at, the node it names
Diag(kind, line, node) == [kind |-> kind, line |-> line, node |-> node]

(***************************************************************************)
(* template_locate                                                         *)
(***************************************************************************)

\* a cell of priorities_matrix that Malloc returned and nothing wrote yet
Uninit == -7

\* the inner while loop of the partial-specialization search: score the
\* arguments against one candidate's partialparms, writing each priority
\* into the row at offset off
RECURSIVE ScoreParms(_, _, _, _, _)
ScoreParms(parms, pp, i, matrix, off) ==
    IF i > Len(parms) \/ i > Len(pp) THEN [ok |-> TRUE, matrix |-> matrix]
    ELSE LET t == IF parms[i].type # Null THEN parms[i].type ELSE parms[i].value
         IN  IF t = Null THEN ScoreParms(parms, pp, i + 1, matrix, off)
             ELSE LET r == does_parm_match(t, pp[i].type, DollarVar(i))
                      m2 == [matrix EXCEPT ![off + i] = r.priority]
                  IN  IF r.match < PartiallySpecializedMatch
                      THEN [ok |-> FALSE, matrix |-> m2]
                      ELSE ScoreParms(parms, pp, i + 1, m2, off)

\* ArityGuard letting shorter candidates through
ArityGuard_atmost(partialparms, parms_len) == ParmList_len(partialparms) <= parms_len

\* whether a candidate with this partialparms is scored at all
ArityGuard(partialparms, parms_len) == ParmList_len(partialparms) = parms_len

\* NextRow moving on to the next row after every scored candidate
NextRow_always(off, all_parameters_match, parms_len) == off + parms_len

\* lines 871-874: priorities_row moves on to the next row only when the
\* candidate is appended to possiblepartials
NextRow(off, all_parameters_match, parms_len) ==
    IF all_parameters_match THEN off + parms_len ELSE off

\* the for loop over templ's "partials": st is [matrix, off, possible, scored]
RECURSIVE ScorePartials(_, _, _, _, _)
ScorePartials(tab, list, k, parms, st) ==
    IF k > Len(list) THEN st
    ELSE LET item == Swig_symbol_clookup(tab, list[k])
         IN  IF ArityGuard(item.partialparms, ParmList_len(parms))
             THEN LET r == ScoreParms(parms, item.partialparms, 1, st.matrix, st.off)
                  IN  ScorePartials(tab, list, k + 1, parms,
                          [matrix |-> r.matrix,
                           off |-> NextRow(st.off, r.ok, ParmList_len(parms)),
                           possible |-> IF r.ok THEN Append(st.possible, list[k])
                                        ELSE st.possible,
                           scored |-> Append(st.scored, list[k])])
             ELSE ScorePartials(tab, list, k + 1, parms, st)

\* the highest priority of a column over the first posslen rows
RECURSIVE ColMaxFrom(_, _, _, _, _, _)
ColMaxFrom(matrix, col, row, posslen, parms_len, maxpriority) ==
    IF row >= posslen THEN maxpriority
    ELSE LET priority == matrix[row * parms_len + col]
         IN  ColMaxFrom(matrix, col, row + 1, posslen, parms_len,
                        IF priority > maxpriority THEN priority ELSE maxpriority)

\* the matrix with every entry of the first posslen rows replaced by 1 when
\* it equals its column's highest priority and by 0 otherwise
PriorityFlags(matrix, posslen, parms_len) ==
    [idx \in 1..Len(matrix) |->
        IF idx <= posslen * parms_len
        THEN LET col == ((idx - 1) % parms_len) + 1
             IN  IF matrix[idx] >= ColMaxFrom(matrix, col, 0, posslen, parms_len, -1)
                 THEN 1 ELSE 0
        ELSE matrix[idx]]

RECURSIVE RowSum(_, _, _, _)
RowSum(flags, row, col, parms_len) ==
    IF col > parms_len THEN 0
    ELSE flags[row * parms_len + col] + RowSum(flags, row, col + 1, parms_len)

\* chosenpartials: the candidates whose row is highest in every column
RECURSIVE ChosenFrom(_, _, _, _)
ChosenFrom(possible, flags, row, parms_len) ==
    IF row >= Len(possible) THEN <<>>
    ELSE (IF RowSum(flags, row, 1, parms_len) = parms_len
          THEN <<possible[row + 1]>> ELSE <<>>)
         \o ChosenFrom(possible, flags, row + 1, parms_len)

\* IgnoredWarnings naming every candidate, the first one too
IgnoredWarnings_all(tab, possible, i) ==
    [k \in 1..Len(possible) |->
        Diag("AmbigIgnored", Swig_symbol_clookup(tab, possible[k]).line,
             Swig_symbol_clookup(tab, possible[k]).id)]

\* the warnings for the candidates after the first
RECURSIVE IgnoredWarnings(_, _, _)
IgnoredWarnings(tab, possible, i) ==
    IF i > Len(possible) THEN <<>>
    ELSE <<Diag("AmbigIgnored", Swig_symbol_clookup(tab, possible[i]).line,
                Swig_symbol_clookup(tab, possible[i]).id)>>
         \o IgnoredWarnings(tab, possible, i + 1)

\* what template_locate leaves when it returns before the partial search
LocResult(n, d, tname, parms) ==
    [n |-> n, diag |-> d, tname |-> tname, parms |-> parms, scored |-> <<>>,
     survivors |-> <<>>, possible |-> <<>>, matrix |-> <<>>, flags |-> <<>>,
     live |-> {}]

\* the `return 0` of lines 788 and 805: the copies made at lines 728-729
\* are still allocated when the function returns
ReturnedEarly(d, tname, parms) ==
    [LocResult(NoNode, d, tname, parms) EXCEPT
        !.live = {"tname"} \cup (IF Len(parms) > 0 THEN {"parms"} ELSE {})]

\* PreviousInstantiation testing for a named instantiation before symname
PreviousInstantiation_warnfirst(tab, n, symname, line, tname, parms) ==
    LET tn == NodeById(tab, n.template)
        previous_named_instantiation == IF n.hidden THEN NextSibling(tab, n) ELSE n
    IN  IF previous_named_instantiation.id # "none"
        THEN ReturnedEarly(
                       << Diag("TypeRedefined", line, Null),
                          Diag("TypeRedefined", n.line, previous_named_instantiation.id) >>,
                       tname, parms)
        ELSE IF symname = Null THEN ReturnedEarly(<<>>, tname, parms)
        ELSE LocResult(tn, <<>>, tname, parms)

\* PreviousInstantiation taking the symbol found for the named instantiation
\* whether it is hidden or not
PreviousInstantiation_nohidden(tab, n, symname, line, tname, parms) ==
    IF symname = Null THEN ReturnedEarly(<<>>, tname, parms)
    ELSE ReturnedEarly(
                   << Diag("TypeRedefined", line, Null),
                      Diag("TypeRedefined", n.line, n.id) >>,
                   tname, parms)

\* lines 776-811: the symbol found is a previous instantiation
PreviousInstantiation(tab, n, symname, line, tname, parms) ==
    LET tn == NodeById(tab, n.template)
        previous_named_instantiation == IF n.hidden THEN NextSibling(tab, n) ELSE n
    IN  IF symname = Null THEN ReturnedEarly(<<>>, tname, parms)
        ELSE IF previous_named_instantiation.id # "none"
        THEN ReturnedEarly(
                       << Diag("TypeRedefined", line, Null),
                          Diag("TypeRedefined", n.line, previous_named_instantiation.id) >>,
                       tname, parms)
        ELSE LocResult(tn, <<>>, tname, parms)

\* lines 987-1027: look the first remaining candidate up, warn about the
\* others, fall back to the primary, refuse a node that is no template
ReportPartial(tab, templ, parms, line, tname, st, flags, possiblepartials, found) ==
    [n |-> IF (IF found.id # "none" THEN found ELSE templ).nodeType # "template"
           THEN NoNode
           ELSE IF found.id # "none" THEN found ELSE templ,
     diag |-> (IF Len(possiblepartials) > 1
               THEN (IF found.id # "none"
                     THEN << Diag("AmbigInstantiation", line, Null),
                             Diag("AmbigUsed", found.line, found.id) >>
                     ELSE <<>>)
                    \o IgnoredWarnings(tab, possiblepartials, 2)
               ELSE <<>>)
              \o (IF (IF found.id # "none" THEN found ELSE templ).nodeType # "template"
                  THEN <<Diag("NotATemplate", line,
                              (IF found.id # "none" THEN found ELSE templ).id)>>
                  ELSE <<>>),
     tname |-> tname, parms |-> parms, scored |-> st.scored,
     survivors |-> st.possible, possible |-> possiblepartials,
     matrix |-> st.matrix, flags |-> flags, live |-> {}]

\* ChosenOrAll keeping every survivor
ChosenOrAll_keepall(chosenpartials, possiblepartials) == possiblepartials

\* lines 975-983: the candidates highest in every column replace the
\* survivors when there is at least one
ChosenOrAll(chosenpartials, possiblepartials) ==
    IF Len(chosenpartials) > 0 THEN chosenpartials ELSE possiblepartials

\* a variant of FirstOf that looks the last remaining candidate up
FirstOf_last(tab, possiblepartials) ==
    IF Len(possiblepartials) > 0
    THEN Swig_symbol_clookup(tab, possiblepartials[Len(possiblepartials)])
    ELSE NoNode

\* lines 987-989: the first remaining candidate, looked up by its
\* "templcsymname"
FirstOf(tab, possiblepartials) ==
    IF Len(possiblepartials) > 0 THEN Swig_symbol_clookup(tab, possiblepartials[1])
    ELSE NoNode

LookupPartial(tab, templ, parms, line, tname, st, flags, possiblepartials) ==
    ReportPartial(tab, templ, parms, line, tname, st, flags, possiblepartials,
                  FirstOf(tab, possiblepartials))

\* lines 950-984
ChoosePartial(tab, templ, parms, line, tname, st, flags) ==
    LookupPartial(tab, templ, parms, line, tname, st, flags,
        IF Len(st.possible) > 1
        THEN ChosenOrAll(ChosenFrom(st.possible, flags, 0, ParmList_len(parms)),
                         st.possible)
        ELSE st.possible)

\* lines 895-949: with more than one survivor, turn priorities into flags
RankPartials(tab, templ, parms, line, tname, st) ==
    ChoosePartial(tab, templ, parms, line, tname, st,
        IF Len(st.possible) > 1
        THEN PriorityFlags(st.matrix, Len(st.possible), ParmList_len(parms))
        ELSE st.matrix)

\* lines 819-1027: the search among the partial specializations
PartialSearch(tab, plist, templ, name, parms, line, tname) ==
    RankPartials(tab, templ, parms, line, tname,
        ScorePartials(tab, plist, 1, parms,
            [matrix |-> [i \in 1..(Len(plist) * ParmList_len(parms)) |-> Uninit],
             off |-> 0, possible |-> <<>>, scored |-> <<>>]))

\* a variant of the explicit lookup that only tries tname as written
ExplicitLookup_direct(tab, tname) == Swig_symbol_clookup(tab, tname)

\* lines 751-766: the symbol named tname, else the one named by the
\* typedef-reduced tname
ExplicitLookup(tab, tname) ==
    IF Swig_symbol_clookup(tab, tname).id # "none"
    THEN Swig_symbol_clookup(tab, tname)
    ELSE IF Swig_symbol_typedef_reduce(tname) # tname
    THEN Swig_symbol_clookup(tab, Swig_symbol_typedef_reduce(tname))
    ELSE NoNode

\* lines 767-1027, n being what the explicit-specialization lookup found
LocateFound(tab, plist, templ, name, symname, line, parms, tname, n) ==
    IF n.id # "none"
    THEN IF n.nodeType = "template" THEN LocResult(n, <<>>, tname, parms)
         ELSE IF n.template # Null
         THEN PreviousInstantiation(tab, n, symname, line, tname, parms)
         ELSE LocResult(NoNode, <<Diag("NotATemplate", line, n.id)>>, tname, parms)
    ELSE PartialSearch(tab, plist, templ, name, parms, line, tname)

\* lines 738-748: every argument type is qualified in the template's scope
QualifyParms(filled) ==
    [i \in 1..Len(filled) |->
        [filled[i] EXCEPT !.type = IF @ = Null THEN Null
                                   ELSE Swig_symbol_type_qualify(@)]]

\* lines 728-766.  The defaults are linked behind the last argument, so
\* parms is the expanded list; a list without any argument has no node to
\* link them to and parms stays empty.
LocateExpanded(tab, plist, templ, name, instantiated_parms, symname, line, expandedparms) ==
    LocateFound(tab, plist, templ, name, symname, line,
                IF Len(instantiated_parms) = 0 THEN <<>> ELSE expandedparms,
                SwigType_add_template(name, expandedparms),
                ExplicitLookup(tab, SwigType_add_template(name, expandedparms)))

LocateIn(tab, plist, templ, name, instantiated_parms, symname, line) ==
    IF templ.id = "none"
    THEN LocResult(NoNode, <<Diag("TemplateUndefined", line, Null)>>, Null, <<>>)
    ELSE LocateExpanded(tab, plist, templ, name, instantiated_parms, symname, line,
             QualifyParms(Swig_symbol_template_defargs(instantiated_parms,
                                                       templ.templateparms)))

\* template_locate(name, instantiated_parms, symname, tscope), called at
\* source line `line`, on symbol table tab with templ's partials plist
template_locate(tab, plist, name, instantiated_parms, symname, line) ==
    LocateIn(tab, plist, Swig_symbol_clookup(tab, name), name, instantiated_parms,
             symname, line)

(***************************************************************************)
(* Swig_cparse_template_locate                                             *)
(***************************************************************************)

\* the nodes added under a name, in "sym:nextSibling" order
RECURSIVE SiblingsFrom(_, _, _)
SiblingsFrom(tab, name, i) ==
    IF i > Len(tab) THEN <<>>
    ELSE (IF tab[i].name = name THEN <<tab[i].node>> ELSE <<>>)
         \o SiblingsFrom(tab, name, i + 1)

\* a variant of the non-variadic match that accepts a template with more
\* template parameters than there are arguments
NonVariadicMatch_atleast(n, instantiated_parms) ==
    /\ n.nodeType = "template"
    /\ ParmList_variadic_parm(n.templateparms) = 0
    /\ ParmList_len(instantiated_parms) <= ParmList_len(n.templateparms)

\* lines 1095-1112: a non-variadic function template with as many template
\* parameters as there are arguments
NonVariadicMatch(n, instantiated_parms) ==
    /\ n.nodeType = "template"
    /\ ParmList_variadic_parm(n.templateparms) = 0
    /\ ParmList_len(instantiated_parms) = ParmList_len(n.templateparms)

\* lines 1115-1135: a variadic function template the arguments can fill
VariadicMatch(n, instantiated_parms) ==
    /\ n.nodeType = "template"
    /\ ParmList_variadic_parm(n.templateparms) # 0
    /\ ParmList_len(instantiated_parms) >= ParmList_len(n.templateparms) - 1

\* lines 1064-1076: the arity errors for a class template
ArityErrors(n, instantiated_parms, line) ==
    LET tparmsfound == n.templateparms
        specialized == Len(tparmsfound) = 0
        variadic == ParmList_variadic_parm(tparmsfound) # 0
        required == ParmList_numrequired(tparmsfound) - (IF variadic THEN 1 ELSE 0)
    IN  IF specialized THEN <<>>
        ELSE IF ~variadic /\ ParmList_len(instantiated_parms) > ParmList_len(tparmsfound)
        THEN <<Diag("TooMany", line, n.id)>>
        ELSE IF ParmList_len(instantiated_parms) < required
        THEN <<Diag("NotEnough", line, n.id)>>
        ELSE <<>>

\* the class-template branch: report arity errors, flag the node, return it
LocateClass(n, instantiated_parms, line) ==
    [match |-> n, diag |-> ArityErrors(n, instantiated_parms, line),
     flagged |-> {n.id}]

\* the function-template branch: flag every sibling of matching arity
LocateFunction(tab, name, instantiated_parms, line) ==
    LET sibs == SiblingsFrom(tab, name, 1)
        nonvar == SelectSeq(sibs, LAMBDA x : NonVariadicMatch(x, instantiated_parms))
        var == SelectSeq(sibs, LAMBDA x : VariadicMatch(x, instantiated_parms))
        found == IF Len(nonvar) > 0 THEN nonvar ELSE var
    IN  [match |-> IF Len(found) > 0 THEN found[1] ELSE NoNode,
         diag |-> IF Len(found) > 0 THEN <<>>
                  ELSE <<Diag("TemplateUndefined", line, Null)>>,
         flagged |-> { found[i].id : i \in 1..Len(found) }]

\* lines 1057-1141, l being what template_locate returned
MarkInstantiate(tab, name, instantiated_parms, line, l) ==
    IF l.n.id = "none" THEN [match |-> NoNode, diag |-> <<>>, flagged |-> {}]
    ELSE IF l.n.templatetype = "class"
    THEN LocateClass(l.n, instantiated_parms, line)
    ELSE LocateFunction(tab, name, instantiated_parms, line)

LocateOutcome(l, r) ==
    [match |-> r.match, diag |-> l.diag \o r.diag, flagged |-> r.flagged, loc |-> l]

LocateThenMark(tab, name, instantiated_parms, line, l) ==
    LocateOutcome(l, MarkInstantiate(tab, name, instantiated_parms, line, l))

\* Swig_cparse_template_locate(name, instantiated_parms, symname, tscope):
\* the node returned, the diagnostics, the nodes that get "instantiate"
Swig_cparse_template_locate(tab, plist, name, instantiated_parms, symname, line) ==
    LocateThenMark(tab, name, instantiated_parms, line,
        template_locate(tab, plist, name, instantiated_parms, symname, line))

(***************************************************************************)
(* The %template directive: locate, then the parser adds the instantiation *)
(* to the symbol table                                                     *)
(***************************************************************************)

\* the name every template in the model is declared under
TName == "X"

MaxRequests == 3

\* source line of the request made when `n` more requests may follow
RequestLine(n) == 200 - n

\* number of instantiation nodes in the table
NumInsts(tab) == Cardinality({ i \in 1..Len(tab) : tab[i].node.template # Null })

Digit(k) == CASE k = 0 -> "0" [] k = 1 -> "1" [] k = 2 -> "2" [] k = 3 -> "3"
              [] k = 4 -> "4" [] k = 5 -> "5" [] k = 6 -> "6" [] k = 7 -> "7"
              [] k = 8 -> "8" [] OTHER -> "9"

\* the node of an instantiation: it records the template it was made from,
\* the name it was given, and is hidden when it was given none
InstNode(tab, match, symname, line) ==
    [ Node("I" \o Digit(NumInsts(tab) + 1), match.templatetype, Null, <<>>, <<>>, line)
        EXCEPT !.hidden = (symname = Null), !.symname = symname,
               !.template = match.id ]

\* the parser's registration of an accepted instantiation, under the
\* typedef-reduced name with its template arguments
Register(tab, r, symname, line) ==
    IF r.match.id = "none" THEN tab
    ELSE Append(tab, [name |-> Swig_symbol_typedef_reduce(r.loc.tname),
                      node |-> InstNode(tab, r.match, symname, line)])

NoReq == [parms |-> <<>>, symname |-> Null, line |-> 0]

\* no walk made yet: the static flag of the walker is 0
WalkIdle == [expanded |-> 0, count |-> 0, seen |-> <<>>, dtors |-> <<>>]

\* no expansion and no argument preparation under way
ExpIdle ==
    /\ x_in = [n |-> NoNode, tparms |-> <<>>, rname |-> Null]
    /\ x_out = [typelist |-> <<>>, bases |-> <<>>, tparms |-> <<>>, failed |-> "none",
               log |-> <<>>, pairs |-> <<>>]
    /\ w_out = WalkIdle
    /\ d_in = [parms |-> <<>>, primary |-> NoNode]
    /\ d_out = <<>>

\* no function declaration fixed yet
FixIdle ==
    fx = [in |-> [decl |-> "", type |-> ""], prev |-> [decl |-> "", type |-> ""],
          out |-> [decl |-> "", type |-> ""], n |-> 0]

\* no pack expansion under way
PackIdle ==
    /\ v_in = [p |-> <<>>, uvp |-> TParm(Null, Null, Null), evp |-> <<>>]
    /\ v_out = <<>>

LocIdle ==
    /\ symtab = <<>>
    /\ partials = <<>>
    /\ instantiate = {}
    /\ req = NoReq
    /\ loc = LocResult(NoNode, <<>>, Null, <<>>)
    /\ ret = "none"
    /\ diag = <<>>
    /\ left = 0

\* the state after a request whose locate call came out as r
Directive(parms, symname, line, r) ==
    /\ req' = [parms |-> parms, symname |-> symname, line |-> line]
    /\ loc' = r.loc
    /\ ret' = r.match.id
    /\ diag' = r.diag
    /\ instantiate' = instantiate \cup r.flagged
    /\ symtab' = Register(symtab, r, symname, line)

\* %template(symname) X<parms>;
Locate(parms, symname) ==
    /\ pc = "parsing"
    /\ left > 0
    /\ Directive(parms, symname, RequestLine(left),
                 Swig_cparse_template_locate(symtab, partials, TName, parms, symname,
                                             RequestLine(left)))
    /\ left' = left - 1
    /\ UNCHANGED <<pc, partials>>
    /\ UNCHANGED <<matchVars, expVars, parmVars, packVars, fixVars>>

(***************************************************************************)
(* Specification SpecMatch: does_parm_match on one (type, candidate) pair  *)
(***************************************************************************)

\* concrete template argument types
MatchTypes ==
    { "int", "p.int", "p.q(const).int", "r.q(const).p.int", "p.p.int",
      "p.f(int).int", "f(int).int", "Integer", "p.Integer", "IntPtr",
      "double", "p.double", "p.f(double).int", "Pair<(int,int)>" }

\* candidate parameter types of partial specializations, written for $1
MatchPartials(v) ==
    { v, "p." \o v, "p.q(const)." \o v, "r." \o v, "r.q(const)." \o v,
      "r.q(const).p." \o v, "p.p." \o v,
      "p.f(" \o v \o ")." \o v, "f(" \o v \o ")." \o v,
      "Pair<(" \o v \o "," \o v \o ")>", "p.f(" \o v \o ").int",
      "int", "p.int", "p.double", "p.f(int).int", "$12", "p.$12" }

MaxParmIndex == 2

NoResult == [match |-> 0, priority |-> 0]

InitMatch ==
    /\ pc = "start"
    /\ \E i \in 1..MaxParmIndex :
          \E ty \in MatchTypes :
             \E pt \in MatchPartials(DollarVar(i)) \cup MatchPartials(DollarVar(1)) :
                m_in = [type |-> ty, partial |-> pt, idx |-> i]
    /\ m_out = NoResult
    /\ LocIdle
    /\ ExpIdle
    /\ PackIdle
    /\ FixIdle

RunMatch ==
    /\ pc = "start"
    /\ pc' = "done"
    /\ m_out' = does_parm_match(m_in.type, m_in.partial, DollarVar(m_in.idx))
    /\ UNCHANGED m_in
    /\ UNCHANGED <<locVars, expVars, parmVars, packVars, fixVars>>

NextMatch == RunMatch

SpecMatch == InitMatch /\ [][NextMatch]_vars

(***************************************************************************)
(* Declarations the specifications start from                              *)
(***************************************************************************)

TypeParm(n) == TParm(n, "typename", Null)
DefParm(n, v) == TParm(n, "typename", v)
PackParm(n) == TParm(n, "v.typename", Null)

\* template parameter lists of the class template X
ClassParmLists ==
    { <<TypeParm("T1")>>,
      <<TypeParm("T1"), TypeParm("T2")>>,
      <<TypeParm("T1"), DefParm("T2", "p.double")>>,
      <<TypeParm("T1"), DefParm("T2", "int"), DefParm("T3", "Less<(T1)>")>>,
      <<TypeParm("T1"), PackParm("Ts")>> }

\* template<...> class X, declared at line 1
Primary(tparms) ==
    [name |-> TName, node |-> Node("T1", "template", "class", tparms, <<>>, 1)]

\* template<> class X<int>, an explicit specialization
ExplicitInt ==
    [name |-> "X<(int)>", node |-> Node("S1", "template", "class", <<>>, <<>>, 5)]

\* the partial specializations of X that may have been declared: the symbol
\* name ("templcsymname"), the node, its "partialparms" types
PartialPool ==
    { [sym |-> "X<($1,p.double)>",     id |-> "PA", line |-> 11, pp |-> <<"$1", "p.double">>],
      [sym |-> "X<(p.int,$2)>",        id |-> "PB", line |-> 12, pp |-> <<"p.int", "$2">>],
      [sym |-> "X<(p.$1,p.$2)>",       id |-> "PC", line |-> 13, pp |-> <<"p.$1", "p.$2">>],
      [sym |-> "X<(p.f($1).$1,$2)>",   id |-> "PD", line |-> 14, pp |-> <<"p.f($1).$1", "$2">>],
      [sym |-> "X<(p.f(int).int,$2)>", id |-> "PE", line |-> 15, pp |-> <<"p.f(int).int", "$2">>],
      [sym |-> "X<(p.$1,$2)>",         id |-> "PF", line |-> 16, pp |-> <<"p.$1", "$2">>],
      [sym |-> "X<($1,$2,p.$3)>",      id |-> "PG", line |-> 17, pp |-> <<"$1", "$2", "p.$3">>] }

PartialSyms == { c.sym : c \in PartialPool }
PoolEntry(sym) == CHOOSE c \in PartialPool : c.sym = sym

\* the symbol-table entry of a partial specialization of a primary with
\* template parameters tparms
PartialDecl(sym, tparms) ==
    LET c == PoolEntry(sym)
    IN  [name |-> sym,
         node |-> Node(c.id, "template", "class", tparms,
                       [i \in 1..Len(c.pp) |-> Parm(c.pp[i])], c.line)]

\* the table holding the primary and the partial specializations of plist
ClassTable(tparms, plist) ==
    <<Primary(tparms)>> \o [i \in 1..Len(plist) |-> PartialDecl(plist[i], tparms)]

\* the sequences without repetition of at most n elements of S
RECURSIVE Arrangements(_, _)
Arrangements(S, n) ==
    IF n = 0 THEN {<<>>}
    ELSE LET shorter == Arrangements(S, n - 1)
         IN  shorter \cup { Append(q, x) : q \in { r \in shorter : Len(r) = n - 1 },
                                           x \in S }

Injective(q) == \A i, j \in 1..Len(q) : i # j => q[i] # q[j]

\* the sequences of at most n elements of S
RECURSIVE SeqsUpTo(_, _)
SeqsUpTo(S, n) ==
    IF n = 0 THEN {<<>>}
    ELSE LET shorter == SeqsUpTo(S, n - 1)
         IN  shorter \cup { Append(q, x) : q \in { r \in shorter : Len(r) = n - 1 },
                                           x \in S }

ParmsOf(types) == [i \in 1..Len(types) |-> Parm(types[i])]

Symnames == {Null, "A", "B"}

InitLocVars(tab, plist, budget) ==
    /\ pc = "parsing"
    /\ m_in = [type |-> "", partial |-> "", idx |-> 0]
    /\ m_out = NoResult
    /\ symtab = tab
    /\ partials = plist
    /\ instantiate = {}
    /\ req = NoReq
    /\ loc = LocResult(NoNode, <<>>, Null, <<>>)
    /\ ret = "none"
    /\ diag = <<>>
    /\ left = budget
    /\ ExpIdle
    /\ PackIdle
    /\ FixIdle

(***************************************************************************)
(* Specification SpecArity: one request with any number of arguments to a  *)
(* class template without partial specializations                         *)
(***************************************************************************)

MaxArgs == 4

ArityArgs == { ParmsOf(q) : q \in SeqsUpTo({"int", "p.double"}, MaxArgs) }

InitArity ==
    \E tparms \in ClassParmLists :
        \E tab \in { <<Primary(tparms)>>, <<Primary(tparms), ExplicitInt>> } :
            InitLocVars(tab, <<>>, 1)

NextArity == \E a \in ArityArgs : \E sn \in Symnames : Locate(a, sn)

SpecArity == InitArity /\ [][NextArity]_vars

(***************************************************************************)
(* Specification SpecPartials: one request to a class template with any    *)
(* list of partial specializations                                        *)
(***************************************************************************)

MaxPartials == 2

PartialArgs ==
    { ParmsOf(q) : q \in { <<"p.int", "p.double">>, <<"int", "p.double">>,
                           <<"p.int", "int">>, <<"p.Integer", "p.double">>,
                           <<"p.q(const).int", "p.double">>, <<"p.int">>,
                           <<"p.f(int).int", "p.double">>,
                           <<"int", "int", "p.int">> } }

PartialPrimaries ==
    { <<TypeParm("T1"), TypeParm("T2")>>,
      <<TypeParm("T1"), DefParm("T2", "p.double")>>,
      <<TypeParm("T1"), DefParm("T2", "int"), DefParm("T3", "p.int")>> }

InitPartials ==
    \E tparms \in PartialPrimaries :
        \E plist \in { q \in Arrangements(PartialSyms, MaxPartials) : Injective(q) } :
            InitLocVars(ClassTable(tparms, plist), plist, 1)

NextPartials == \E a \in PartialArgs : \E sn \in {Null, "A"} : Locate(a, sn)

SpecPartials == InitPartials /\ [][NextPartials]_vars

(***************************************************************************)
(* Specification SpecRanking: one request to a class template with three   *)
(* partial specializations, so that two candidates can survive next to a  *)
(* discarded one                                                           *)
(***************************************************************************)

\* the number of partial specializations declared
RankedPartials == 3

RankingSyms == { c.sym : c \in { d \in PartialPool : d.id \in {"PA", "PB", "PC", "PF", "PG"} } }

InitRanking ==
    \E tparms \in PartialPrimaries :
        \E plist \in { q \in Arrangements(RankingSyms, RankedPartials) :
                          Injective(q) /\ Len(q) = RankedPartials } :
            InitLocVars(ClassTable(tparms, plist), plist, 1)

NextRanking == \E a \in PartialArgs : \E sn \in {Null, "A"} : Locate(a, sn)

SpecRanking == InitRanking /\ [][NextRanking]_vars

(***************************************************************************)
(* Specification SpecDup: a sequence of requests for the same template    *)
(***************************************************************************)

\* function templates named X: template<class T1> f, template<class T1,
\* class T2> f, template<class... Ts> f
FunctionTable ==
    << [name |-> TName, node |-> Node("F1", "template", "cdecl",
                                      <<TypeParm("T1")>>, <<>>, 1)],
       [name |-> TName, node |-> Node("F2", "template", "cdecl",
                                      <<TypeParm("T1"), TypeParm("T2")>>, <<>>, 2)],
       [name |-> TName, node |-> Node("F3", "template", "cdecl",
                                      <<PackParm("Ts")>>, <<>>, 3)],
       [name |-> TName, node |-> Node("F4", "template", "cdecl",
                                      <<TypeParm("T1"), TypeParm("T2")>>, <<>>, 4)] >>

DupTables ==
    { ClassTable(<<TypeParm("T1"), DefParm("T2", "p.double")>>, <<>>),
      ClassTable(<<TypeParm("T1"), TypeParm("T2")>>, <<"X<(p.$1,p.$2)>">>),
      <<Primary(<<TypeParm("T1")>>)>>,
      FunctionTable,
      SubSeq(FunctionTable, 3, 3) }

DupArgs ==
    { ParmsOf(q) : q \in { <<"p.int", "p.double">>, <<"p.Integer", "p.double">>,
                           <<"int">> } }

InitDup ==
    \E tab \in DupTables :
        InitLocVars(tab,
                    IF Len(tab) = 2 /\ tab[2].node.id = "PC" THEN <<tab[2].name>>
                    ELSE <<>>,
                    MaxRequests)

NextDup == \E a \in DupArgs : \E sn \in Symnames : Locate(a, sn)

SpecDup == InitDup /\ [][NextDup]_vars

(***************************************************************************)
(* Specification SpecExplicit: one request to a class template with        *)
(* explicit and partial specializations                                    *)
(***************************************************************************)

\* template<> class X<int*, double*> and template<> class X<int, int>
ExplicitPool ==
    << [name |-> "X<(p.int,p.double)>",
        node |-> Node("S2", "template", "class", <<>>, <<>>, 21)],
       [name |-> "X<(int,int)>",
        node |-> Node("S3", "template", "class", <<>>, <<>>, 22)] >>

ExplicitPartials ==
    { q \in Arrangements({"X<($1,p.double)>", "X<(p.int,$2)>", "X<(p.$1,p.$2)>",
                          "X<(p.$1,$2)>"}, MaxPartials) : Injective(q) }

ExplicitArgs ==
    { ParmsOf(q) : q \in { <<"p.int", "p.double">>, <<"IntPtr", "p.double">>,
                           <<"p.Integer", "p.double">>, <<"p.int">>,
                           <<"int", "int">>, <<"p.int", "int">> } }

InitExplicit ==
    \E tparms \in { <<TypeParm("T1"), TypeParm("T2")>>,
                    <<TypeParm("T1"), DefParm("T2", "p.double")>> } :
        \E plist \in ExplicitPartials : \E k \in 0..Len(ExplicitPool) :
            InitLocVars(ClassTable(tparms, plist) \o SubSeq(ExplicitPool, 1, k),
                        plist, 1)

NextExplicit == \E a \in ExplicitArgs : \E sn \in {Null, "A"} : Locate(a, sn)

SpecExplicit == InitExplicit /\ [][NextExplicit]_vars

(***************************************************************************)
(* Specification SpecFunction: one request to any overload set of function *)
(* templates                                                               *)
(***************************************************************************)

\* the overloads: the four of FunctionTable, template<class T1, class... Ts>
\* fn, and a function that is not a template
FunctionPool ==
    FunctionTable \o
    << [name |-> TName, node |-> Node("F5", "template", "cdecl",
                                      <<TypeParm("T1"), PackParm("Ts")>>, <<>>, 5)],
       [name |-> TName, node |-> Node("G1", "cdecl", Null, <<>>, <<>>, 6)] >>

\* the entries of a table at the positions in S, in table order
RECURSIVE PickFrom(_, _, _)
PickFrom(pool, S, i) ==
    IF i > Len(pool) THEN <<>>
    ELSE (IF i \in S THEN <<pool[i]>> ELSE <<>>) \o PickFrom(pool, S, i + 1)

FunctionTables ==
    { PickFrom(FunctionPool, S, 1) : S \in (SUBSET (1..Len(FunctionPool))) \ {{}} }

FunctionArgs == { ParmsOf(q) : q \in SeqsUpTo({"int", "p.double"}, MaxArgs) }

InitFunction == \E tab \in FunctionTables : InitLocVars(tab, <<>>, 1)

NextFunction == \E a \in FunctionArgs : \E sn \in {Null, "A"} : Locate(a, sn)

SpecFunction == InitFunction /\ [][NextFunction]_vars

(***************************************************************************)
(* expand_variadic_parms, cparse_template_expand                           *)
(***************************************************************************)

\* a null Parm pointer
NoParm == TParm(Null, Null, Null)

\* Append(list, x) for each x in turn: a null item is not appended
NonNull(q) == SelectSeq(q, LAMBDA x : x # Null)

\* SwigType_del_variadic: the type without its variadic marker
SwigType_del_variadic(t) ==
    IF SwigType_isvariadic(t) THEN SubSeq(t, 3, Len(t)) ELSE t

\* ParmList_nth_parm(p, n): the list from its parameter number n (0-based) on
ParmList_nth_parm(p, n) == SubSeq(p, n + 1, Len(p))

\* a node of a template's parse tree, with the attributes the walker reads
XNode(nodeType, templatetype, name, type, decl, parms) ==
    [nodeType |-> nodeType, templatetype |-> templatetype, name |-> name,
     type |-> type, decl |-> decl, parms |-> parms, throws |-> <<>>,
     kwargs |-> <<>>, pattern |-> <<>>, storage |-> Null, error |-> FALSE,
     symname |-> Null,
     baselist |-> <<>>, protectedbaselist |-> <<>>, privatebaselist |-> <<>>,
     templateparms |-> <<>>, partialargs |-> <<>>, children |-> <<>>]

\* add_parms: what the parameters of p add to typelist
RECURSIVE AddParmsFrom(_, _, _)
AddParmsFrom(p, i, is_pattern) ==
    IF i > Len(p) THEN <<>>
    ELSE NonNull(<<p[i].type, p[i].value>>
                 \o (IF is_pattern THEN <<p[i].name>> ELSE <<>>))
         \o AddParmsFrom(p, i + 1, is_pattern)

add_parms(p, is_pattern) == AddParmsFrom(p, 1, is_pattern)

\* a variant of expand_variadic_parms that leaves the variadic marker on
\* the type of every expanded parameter
expand_variadic_parms_keepmarker(p, unexpanded_variadic_parm, expanded_variadic_parms) ==
    IF unexpanded_variadic_parm = NoParm THEN p
    ELSE IF ParmList_variadic_parm(p) = 0 THEN p
    ELSE SubSeq(p, 1, Len(p) - 1)
         \o [i \in 1..Len(expanded_variadic_parms) |->
               [expanded_variadic_parms[i] EXCEPT
                  !.type = Replaceid(p[Len(p)].type,
                                     unexpanded_variadic_parm.name,
                                     expanded_variadic_parms[i].type).str]]

\* expand_variadic_parms: the parameter list p with its variadic last
\* parameter replaced by one parameter for each pack argument
expand_variadic_parms(p, unexpanded_variadic_parm, expanded_variadic_parms) ==
    IF unexpanded_variadic_parm = NoParm THEN p
    ELSE IF ParmList_variadic_parm(p) = 0 THEN p
    ELSE SubSeq(p, 1, Len(p) - 1)
         \o [i \in 1..Len(expanded_variadic_parms) |->
               [expanded_variadic_parms[i] EXCEPT
                  !.type = Replaceid(SwigType_del_variadic(p[Len(p)].type),
                                     unexpanded_variadic_parm.name,
                                     expanded_variadic_parms[i].type).str]]

\* one call expand_variadic_parms(n, attribute, unexpanded_variadic_parm,
\* expanded_variadic_parms), v_in.p being Getattr(n, attribute)
ExpandPack ==
    /\ pc = "packing"
    /\ v_out' = expand_variadic_parms(v_in.p, v_in.uvp, v_in.evp)
    /\ pc' = "packed"
    /\ UNCHANGED v_in
    /\ UNCHANGED <<matchVars, locVars, expVars, parmVars, fixVars>>

\* expand_parms: expand the attribute's list, then add it to typelist
expand_parms(p, unexpanded_variadic_parm, expanded_variadic_parms, is_pattern) ==
    add_parms(expand_variadic_parms(p, unexpanded_variadic_parm,
                                    expanded_variadic_parms), is_pattern)

\* lines 180-213: one of the three base lists after the loop over its items;
\* every item it ends up with was appended to typelist
ExpandBases(bases, unexpanded_variadic_parm, expanded_variadic_parms) ==
    IF Len(bases) > 0 /\ SwigType_isvariadic(bases[Len(bases)])
    THEN SubSeq(bases, 1, Len(bases) - 1)
         \o [i \in 1..Len(expand_variadic_parms(<<Parm(bases[Len(bases)])>>,
                                                unexpanded_variadic_parm,
                                                expanded_variadic_parms)) |->
               expand_variadic_parms(<<Parm(bases[Len(bases)])>>,
                                     unexpanded_variadic_parm,
                                     expanded_variadic_parms)[i].type]
    ELSE bases

\* line 193: assert(i == ilen - 1) fails for a variadic base that is not last
BasesAssertFails(bases) ==
    \E i \in 1..(Len(bases) - 1) : SwigType_isvariadic(bases[i])

\* the assertions of the expansion, by their text; NoAssert when all held
NoAssert == "none"
AssertLastBase == "i == ilen - 1"
AssertPartialArgs == "ParmList_len(ptargs) == ParmList_len(tparms)"
AssertNotVariadic == "!SwigType_isvariadic(s)"

\* what a part of the walk leaves: the typelist entries it appended, and
\* the assertion that failed
Walked(typelist, failed) == [typelist |-> typelist, failed |-> failed]

WalkJoin(a, b) ==
    Walked(a.typelist \o b.typelist,
           IF a.failed # NoAssert THEN a.failed ELSE b.failed)

\* cparse_template_expand(templnode, n, ...): the walk of the tree under n.
\* A template node is walked as a node of its "templatetype"; the outermost
\* one and a member template differ only in the tag they are left with.
RECURSIVE cparse_template_expand(_, _, _)
RECURSIVE ExpandChildren(_, _, _, _)
cparse_template_expand(n, unexpanded_variadic_parm, expanded_variadic_parms) ==
    IF n.error THEN Walked(<<>>, NoAssert)
    ELSE IF n.nodeType = "template"
    THEN cparse_template_expand([n EXCEPT !.nodeType = n.templatetype],
                                unexpanded_variadic_parm, expanded_variadic_parms)
    ELSE IF n.nodeType = "cdecl"
    THEN Walked(NonNull(<<n.type, n.decl>>)
                \o (IF n.storage = "friend" THEN NonNull(<<n.name>>) ELSE <<>>)
                \o expand_parms(n.parms, unexpanded_variadic_parm,
                                expanded_variadic_parms, FALSE)
                \o expand_parms(n.throws, unexpanded_variadic_parm,
                                expanded_variadic_parms, FALSE),
                NoAssert)
    ELSE IF n.nodeType = "class"
    THEN WalkJoin(
             Walked(ExpandBases(n.baselist, unexpanded_variadic_parm,
                                expanded_variadic_parms)
                    \o ExpandBases(n.protectedbaselist, unexpanded_variadic_parm,
                                   expanded_variadic_parms)
                    \o ExpandBases(n.privatebaselist, unexpanded_variadic_parm,
                                   expanded_variadic_parms),
                    IF \/ BasesAssertFails(n.baselist)
                       \/ BasesAssertFails(n.protectedbaselist)
                       \/ BasesAssertFails(n.privatebaselist)
                    THEN AssertLastBase ELSE NoAssert),
             ExpandChildren(n.children, 1, unexpanded_variadic_parm,
                            expanded_variadic_parms))
    ELSE IF n.nodeType = "constructor"
    THEN Walked(NonNull(<<n.decl>>)
                \o expand_parms(n.parms, unexpanded_variadic_parm,
                                expanded_variadic_parms, FALSE)
                \o expand_parms(n.throws, unexpanded_variadic_parm,
                                expanded_variadic_parms, FALSE),
                NoAssert)
    ELSE IF n.nodeType \in {"destructor", "using"}
    THEN Walked(<<>>, NoAssert)
    ELSE WalkJoin(
             Walked(NonNull(<<n.type, n.decl>>)
                    \o expand_parms(n.parms, unexpanded_variadic_parm,
                                    expanded_variadic_parms, FALSE)
                    \o expand_parms(n.kwargs, unexpanded_variadic_parm,
                                    expanded_variadic_parms, FALSE)
                    \o expand_parms(n.pattern, unexpanded_variadic_parm,
                                    expanded_variadic_parms, TRUE)
                    \o expand_parms(n.throws, unexpanded_variadic_parm,
                                    expanded_variadic_parms, FALSE),
                    NoAssert),
             ExpandChildren(n.children, 1, unexpanded_variadic_parm,
                            expanded_variadic_parms))

\* the loop over the children of a node, from child number i on
ExpandChildren(children, i, unexpanded_variadic_parm, expanded_variadic_parms) ==
    IF i > Len(children) THEN Walked(<<>>, NoAssert)
    ELSE WalkJoin(cparse_template_expand(children[i], unexpanded_variadic_parm,
                                         expanded_variadic_parms),
                  ExpandChildren(children, i + 1, unexpanded_variadic_parm,
                                 expanded_variadic_parms))

(***************************************************************************)
(* cparse_template_expand: node tags and destructor names                  *)
(***************************************************************************)

\* strchr(Char(s), c) != 0
Strchr(s, c) == \E i \in 1..Len(s) : SubSeq(s, i, i) = c

\* Replace(s, token, rep, DOH_REPLACE_ANY): every occurrence of token, from
\* left to right, whatever stands next to it
RECURSIVE ReplaceAnyFrom(_, _, _, _)
ReplaceAnyFrom(s, token, r, i) ==
    IF i > Len(s) THEN ""
    ELSE IF StartsAt(s, token, i) THEN r \o ReplaceAnyFrom(s, token, r, i + Len(token))
    ELSE SubSeq(s, i, i) \o ReplaceAnyFrom(s, token, r, i + 1)

ReplaceAny(s, token, r) == ReplaceAnyFrom(s, token, r, 1)

\* a variant of MemberTag that leaves a member template with the tag of
\* its "templatetype"
MemberTag_templatetype(n) == n.templatetype

\* line 141: the tag a member template is left with
MemberTag(n) == "template"

\* a template node the walk went through: its name, the tag it is left
\* with, and whether it took the branch of the outermost template
Retagged(n, tag, outermost) == [name |-> n.name, tag |-> tag, outermost |-> outermost]

\* lines 119-143, 215-221, 303-309: the static flag `expanded` after the
\* walk of the tree under n, and the template nodes met, in walk order
RECURSIVE TagWalk(_, _)
RECURSIVE TagChildren(_, _, _)
TagWalk(n, expanded) ==
    IF n.error THEN [expanded |-> expanded, seen |-> <<>>]
    ELSE IF n.nodeType = "template"
    THEN IF expanded = 0
         THEN [expanded |-> 0,
               seen |-> <<Retagged(n, n.templatetype, TRUE)>>
                        \o TagWalk([n EXCEPT !.nodeType = n.templatetype], 1).seen]
         ELSE [expanded |-> TagWalk([n EXCEPT !.nodeType = n.templatetype],
                                    expanded).expanded,
               seen |-> <<Retagged(n, MemberTag(n), FALSE)>>
                        \o TagWalk([n EXCEPT !.nodeType = n.templatetype],
                                   expanded).seen]
    ELSE IF n.nodeType \in {"cdecl", "constructor", "destructor", "using"}
    THEN [expanded |-> expanded, seen |-> <<>>]
    ELSE TagChildren(n.children, 1, expanded)

TagChildren(children, i, expanded) ==
    IF i > Len(children) THEN [expanded |-> expanded, seen |-> <<>>]
    ELSE [expanded |-> TagChildren(children, i + 1,
                                   TagWalk(children[i], expanded).expanded).expanded,
          seen |-> TagWalk(children[i], expanded).seen
                   \o TagChildren(children, i + 1,
                                  TagWalk(children[i], expanded).expanded).seen]

\* where the children of n stand, rel being where n stands: n is the root
\* template node ("root"), its parent is ("child"), its parent is an extend
\* node whose parent is the root ("extendchild"), or it is deeper ("deep")
ChildRel(n, rel) ==
    IF rel = "root" THEN "child"
    ELSE IF rel = "child" /\ n.nodeType = "extend" THEN "extendchild"
    ELSE "deep"

\* lines 262-285: "sym:name" of a destructor after the walk
DestructorSymname(symname, rel, tname, rname) ==
    IF rel \notin {"child", "extendchild"} \/ symname = Null THEN symname
    ELSE IF Strchr(symname, "<") THEN tname
    ELSE ReplaceAny(symname, tname, rname)

\* the destructors under n, in walk order: "sym:name" before and after
RECURSIVE DestructorWalk(_, _, _, _)
RECURSIVE DestructorChildren(_, _, _, _, _)
DestructorWalk(n, rel, tname, rname) ==
    IF n.error THEN <<>>
    ELSE IF n.nodeType = "template"
    THEN DestructorWalk([n EXCEPT !.nodeType = n.templatetype], rel, tname, rname)
    ELSE IF n.nodeType = "destructor"
    THEN << [name |-> n.name, rel |-> rel, before |-> n.symname,
             after |-> DestructorSymname(n.symname, rel, tname, rname)] >>
    ELSE IF n.nodeType \in {"cdecl", "constructor", "using"} THEN <<>>
    ELSE DestructorChildren(n.children, 1, ChildRel(n, rel), tname, rname)

DestructorChildren(children, i, rel, tname, rname) ==
    IF i > Len(children) THEN <<>>
    ELSE DestructorWalk(children[i], rel, tname, rname)
         \o DestructorChildren(children, i + 1, rel, tname, rname)

\* line 483: what the walk of the tree under the root n leaves, w being
\* what the walks before it left
WalkEffects(n, rname, w) ==
    [expanded |-> TagWalk(n, w.expanded).expanded,
     count |-> w.count + 1,
     seen |-> TagWalk(n, w.expanded).seen,
     dtors |-> DestructorWalk(n, "root", n.name, rname)]

(***************************************************************************)
(* Swig_cparse_template_expand                                             *)
(***************************************************************************)

\* Swig_scopename_last: the name after the last "::"
Swig_scopename_last(s) ==
    LET seps == { i \in 1..Len(s) : StartsAt(s, "::", i) }
    IN  IF seps = {} THEN s
        ELSE SubSeq(s, (CHOOSE i \in seps : \A j \in seps : j <= i) + 2, Len(s))

\* SwigType_typename_replace: pat replaced by rep where it stands as a type
\* name of its own, not where it is the prefix of a template instance
SwigType_typename_replace(s, pat, rep) ==
    ReplaceidFrom(s, pat, rep,
                  { i \in Occurrences(s, pat) : ~StartsAt(s, "<", i + Len(pat)) }, 1)

\* the types joined by commas, from number i on
RECURSIVE JoinTypesFrom(_, _)
JoinTypesFrom(types, i) ==
    IF i > Len(types) THEN ""
    ELSE (IF i > 1 THEN "," ELSE "") \o types[i] \o JoinTypesFrom(types, i + 1)

\* where a variadic parameter starts inside a function's parameter list
VariadicStarts(s) ==
    { i \in 2..Len(s) : StartsAt(s, "v.", i) /\ Ch(s, i - 1) \in {"(", ","} }

\* the position of the "," or ")" that ends the parameter starting at i
ParmEnd(s, i) ==
    LET ends == { j \in i..Len(s) : Ch(s, j) \in {",", ")"} }
    IN  IF ends = {} THEN Len(s) + 1 ELSE CHOOSE j \in ends : \A k \in ends : j <= k

\* s with the parameter in s[i..e-1] replaced by one parameter for each
\* pack argument (and its comma removed when there is no pack argument)
VariadicSplice(s, i, e, unexpanded_variadic_parm, expanded_variadic_parms) ==
    IF Len(expanded_variadic_parms) = 0 /\ Ch(s, i - 1) = ","
    THEN SubSeq(s, 1, i - 2) \o SubSeq(s, e, Len(s))
    ELSE SubSeq(s, 1, i - 1)
         \o JoinTypesFrom([k \in 1..Len(expanded_variadic_parms) |->
                             Replaceid(SwigType_del_variadic(SubSeq(s, i, e - 1)),
                                       unexpanded_variadic_parm.name,
                                       expanded_variadic_parms[k].type).str], 1)
         \o SubSeq(s, e, Len(s))

\* SwigType_variadic_replace: a variadic parameter inside the function type
\* s is replaced by the expanded pack
SwigType_variadic_replace(s, unexpanded_variadic_parm, expanded_variadic_parms) ==
    IF unexpanded_variadic_parm = NoParm \/ VariadicStarts(s) = {} THEN s
    ELSE VariadicSplice(s,
             CHOOSE i \in VariadicStarts(s) : \A j \in VariadicStarts(s) : i <= j,
             ParmEnd(s, CHOOSE i \in VariadicStarts(s) :
                            \A j \in VariadicStarts(s) : i <= j),
             unexpanded_variadic_parm, expanded_variadic_parms)

\* partial_arg(s, p): s without the first occurrence of what p has before
\* its first '$'
partial_arg(s, p) ==
    LET dollars == { i \in 1..Len(p) : Ch(p, i) = "$" }
        c == CHOOSE i \in dollars : \A j \in dollars : i <= j
        occ == { i \in 1..Len(s) : StartsAt(s, SubSeq(p, 1, c - 1), i) }
        k == CHOOSE i \in occ : \A j \in occ : i <= j
    IN  IF dollars = {} THEN s
        ELSE IF c = 1 \/ occ = {} THEN s
        ELSE SubSeq(s, 1, k - 1) \o SubSeq(s, k + c - 1, Len(s))

\* lines 443-465: the arguments with the partial specialization's argument
\* prefixes taken off their types
PartialArgs_applied(partialargs, tparms) ==
    [i \in 1..Len(tparms) |->
        IF i <= Len(partialargs) /\ tparms[i].type # Null
        THEN [tparms[i] EXCEPT !.type = partial_arg(@, partialargs[i])]
        ELSE tparms[i]]

\* the value an argument stands for: its value, else its type
ValueOf(p) == IF p.value # Null THEN p.value ELSE p.type

\* lines 526-535: the values of the parameters after number k, with name
\* replaced by dvalue
PatchDefaults(list, k, name, dvalue) ==
    [i \in 1..Len(list) |->
        IF i > k /\ list[i].value # Null
        THEN [list[i] EXCEPT !.value = Replaceid(@, name, dvalue).str]
        ELSE list[i]]

\* the declarations a type string of the template can name:
\* namespace A { class X; }  namespace B { template<class T> class X; }
\* class Base;
TypeScope ==
    << [name |-> "A::X",
        node |-> [Node("O1", "class", Null, <<>>, <<>>, 2) EXCEPT !.symname = "X"]],
       [name |-> "B::X",
        node |-> [Node("O2", "template", "class", <<TParm("T", "typename", Null)>>,
                       <<>>, 3) EXCEPT !.symname = "X"]],
       [name |-> "Base",
        node |-> [Node("O3", "class", Null, <<>>, <<>>, 4) EXCEPT !.symname = "Base"]] >>

\* lines 554-560: whether the typename replacements are made in s; they are
\* not when s names a declaration that is no template and has the "sym:name"
\* of the template being expanded
TypenameGuard(s, tsname) ==
    \/ Swig_symbol_clookup(TypeScope, s).id = "none"
    \/ Swig_symbol_clookup(TypeScope, s).symname = Null
    \/ tsname = Null
    \/ Swig_symbol_clookup(TypeScope, s).symname # tsname
    \/ Swig_symbol_clookup(TypeScope, s).templatetype # Null

\* lines 541-564: one typelist entry after the replacements of one
\* (name, dvalue) pair, s being the entry after SwigType_variadic_replace
PatchType(s, name, dvalue, tbase, iname, tsname) ==
    IF TypenameGuard(s, tsname)
    THEN SwigType_typename_replace(SwigType_typename_replace(s, name, dvalue),
                                   tbase, iname)
    ELSE s

\* the typelist after SwigType_variadic_replace on every entry
VariadicReplaced(typelist, unexpanded_variadic_parm, expanded_variadic_parms) ==
    [i \in 1..Len(typelist) |->
        SwigType_variadic_replace(typelist[i], unexpanded_variadic_parm,
                                  expanded_variadic_parms)]

\* what was done to the typelist entries of one pass: the string that was
\* looked up and whether the typename replacements were made in it
PatchLog(typelist, tsname, guarded) ==
    [i \in 1..Len(typelist) |->
        [s |-> typelist[i], tsname |-> tsname,
         replaced |-> (~guarded \/ TypenameGuard(typelist[i], tsname))]]

\* lines 510-521: the string put in place of a template parameter's name
DValue(p) == Swig_symbol_type_qualify(Swig_symbol_typedef_reduce(ValueOf(p)))

\* what the substitution phase leaves
Patched(typelist, tparms, templateparms, failed, log, pairs) ==
    [typelist |-> typelist, tparms |-> tparms, templateparms |-> templateparms,
     failed |-> failed, log |-> log, pairs |-> pairs]

\* one pass of the loop: the name of tp (line 509), the number of the pair,
\* whether p is tp itself (lines 583-584) and the string that stands for the
\* name (lines 510-521; Null when tp has no name, line 512)
PatchPair(name, k, self, dvalue) ==
    [name |-> name, k |-> k, self |-> self, dvalue |-> dvalue]

\* lines 503 and 581-584, without the fall back of p to tp: the loop is over
\* when either list is used up
PatchLoopDone_either(tparms, templateparms, k) ==
    k > Len(templateparms) \/ k > Len(tparms)

\* lines 503 and 581-584: p is never null while tp is not, because p goes on
\* with tp when the arguments are used up; the loop is over when tp is null
PatchLoopDone(tparms, templateparms, k) ==
    k > Len(templateparms)

\* lines 541-564: the typelist after one pass of the loop, vr being the
\* typelist after SwigType_variadic_replace
PatchPass(vr, name, dvalue, tbase, iname, tsname) ==
    [i \in 1..Len(vr) |-> PatchType(vr[i], name, dvalue, tbase, iname, tsname)]

\* lines 503-585: the loop over the pairs (p, tp), at pair number k; p runs
\* over the arguments and, when they are used up, goes on with the template
\* parameters themselves
RECURSIVE PatchLoop(_, _, _, _, _, _, _, _, _, _, _)
PatchLoop(tparms, templateparms, k, typelist, tbase, iname, tsname, unexpanded_variadic_parm, expanded_variadic_parms, log, pairs) ==
    IF PatchLoopDone(tparms, templateparms, k)
    THEN Patched(typelist, tparms, templateparms, NoAssert, log, pairs)
    ELSE IF templateparms[k].name = Null
    THEN PatchLoop(tparms, templateparms, k + 1, typelist, tbase, iname, tsname,
                   unexpanded_variadic_parm, expanded_variadic_parms, log,
                   Append(pairs, PatchPair(Null, k, k > Len(tparms), Null)))
    ELSE IF \E i \in 1..Len(typelist) : SwigType_isvariadic(typelist[i])
    THEN Patched(typelist, tparms, templateparms, AssertNotVariadic, log, pairs)
    ELSE IF k <= Len(tparms)
    THEN PatchLoop(PatchDefaults(tparms, k, templateparms[k].name, DValue(tparms[k])),
                   templateparms, k + 1,
                   PatchPass(VariadicReplaced(typelist, unexpanded_variadic_parm,
                                              expanded_variadic_parms),
                             templateparms[k].name, DValue(tparms[k]),
                             tbase, iname, tsname),
                   tbase, iname, tsname, unexpanded_variadic_parm,
                   expanded_variadic_parms,
                   log \o PatchLog(VariadicReplaced(typelist, unexpanded_variadic_parm,
                                                    expanded_variadic_parms),
                                   tsname, TRUE),
                   Append(pairs, PatchPair(templateparms[k].name, k, FALSE,
                                           DValue(tparms[k]))))
    ELSE PatchLoop(tparms,
                   PatchDefaults(templateparms, k, templateparms[k].name,
                                 DValue(templateparms[k])),
                   k + 1,
                   PatchPass(VariadicReplaced(typelist, unexpanded_variadic_parm,
                                              expanded_variadic_parms),
                             templateparms[k].name, DValue(templateparms[k]),
                             tbase, iname, tsname),
                   tbase, iname, tsname, unexpanded_variadic_parm,
                   expanded_variadic_parms,
                   log \o PatchLog(VariadicReplaced(typelist, unexpanded_variadic_parm,
                                                    expanded_variadic_parms),
                                   tsname, TRUE),
                   Append(pairs, PatchPair(templateparms[k].name, k, TRUE,
                                           DValue(templateparms[k]))))

\* lines 586-596: no argument or no template parameter at all
PatchNoParms(tparms, templateparms, typelist, tbase, iname, tsname, unexpanded_variadic_parm, expanded_variadic_parms) ==
    IF \E i \in 1..Len(typelist) : SwigType_isvariadic(typelist[i])
    THEN Patched(typelist, tparms, templateparms, AssertNotVariadic, <<>>, <<>>)
    ELSE Patched([i \in 1..Len(typelist) |->
                     SwigType_typename_replace(
                         SwigType_variadic_replace(typelist[i], unexpanded_variadic_parm,
                                                   expanded_variadic_parms),
                         tbase, iname)],
                 tparms, templateparms, NoAssert,
                 PatchLog(VariadicReplaced(typelist, unexpanded_variadic_parm,
                                           expanded_variadic_parms),
                          tsname, FALSE),
                 <<>>)

\* lines 494-597: "Patch all of the types"
PatchTypes(tparms, templateparms, typelist, tbase, iname, tsname, unexpanded_variadic_parm, expanded_variadic_parms) ==
    IF Len(tparms) > 0 /\ Len(templateparms) > 0
    THEN PatchLoop(tparms, templateparms, 1, typelist, tbase, iname, tsname,
                   unexpanded_variadic_parm, expanded_variadic_parms, <<>>, <<>>)
    ELSE PatchNoParms(tparms, templateparms, typelist, tbase, iname, tsname,
                      unexpanded_variadic_parm, expanded_variadic_parms)

\* what Swig_cparse_template_expand leaves: the typelist, the root's
\* "baselist", the arguments, and the assertion that stopped the program
Expanded(n, nbases, r) ==
    [typelist |-> r.typelist,
     bases |-> IF r.failed # NoAssert THEN <<>>
               ELSE [i \in 1..nbases |-> Swig_symbol_type_qualify(r.typelist[i])],
     tparms |-> r.tparms,
     failed |-> r.failed,
     log |-> r.log,
     pairs |-> r.pairs]

\* lines 485-612, for the typelist the walk collected
ExpandPatch(n, tparms, walk, unexpanded_variadic_parm, expanded_variadic_parms, templateargs) ==
    IF walk.failed # NoAssert
    THEN Expanded(n, 0, Patched(walk.typelist, tparms, n.templateparms, walk.failed, <<>>, <<>>))
    ELSE Expanded(n,
                  IF n.templatetype = "class"
                  THEN Len(ExpandBases(n.baselist, unexpanded_variadic_parm,
                                       expanded_variadic_parms))
                  ELSE 0,
                  PatchTypes(tparms, n.templateparms, walk.typelist,
                             Swig_scopename_last(n.name), n.name \o templateargs,
                             n.symname,
                             unexpanded_variadic_parm, expanded_variadic_parms))

\* line 483: the walk of the whole tree
ExpandWalk(n, tparms, unexpanded_variadic_parm, expanded_variadic_parms, templateargs) ==
    ExpandPatch(n, tparms,
                cparse_template_expand(n, unexpanded_variadic_parm,
                                       expanded_variadic_parms),
                unexpanded_variadic_parm, expanded_variadic_parms, templateargs)

\* lines 475-478: the pack parameter and the pack arguments, tparms being
\* the arguments after the partialargs step
ExpandFrom(n, tparms, templateargs) ==
    ExpandWalk(n, tparms,
               IF ParmList_variadic_parm(n.templateparms) # 0
               THEN n.templateparms[ParmList_variadic_parm(n.templateparms)]
               ELSE NoParm,
               IF ParmList_variadic_parm(n.templateparms) # 0
               THEN ParmList_nth_parm(tparms, ParmList_len(n.templateparms) - 1)
               ELSE <<>>,
               templateargs)

\* Swig_cparse_template_expand(n, rname, tparms, tscope)
Swig_cparse_template_expand(n, tparms) ==
    IF Len(n.partialargs) > 0 /\ Len(n.partialargs) # ParmList_len(tparms)
    THEN Expanded(n, 0, Patched(<<>>, PartialArgs_applied(n.partialargs, tparms),
                                n.templateparms, AssertPartialArgs, <<>>, <<>>))
    ELSE ExpandFrom(n,
                    IF Len(n.partialargs) > 0
                    THEN PartialArgs_applied(n.partialargs, tparms)
                    ELSE tparms,
                    SwigType_add_template("", tparms))

\* the instantiation of the template x_in.n with the arguments x_in.tparms
Expand ==
    /\ pc = "template"
    /\ x_out' = Swig_cparse_template_expand(x_in.n, x_in.tparms)
    /\ pc' = IF x_out'.failed # "none" THEN "aborted" ELSE "expanded"
    /\ w_out' = IF x_out'.failed # "none" THEN w_out
               ELSE WalkEffects(x_in.n, x_in.rname, w_out)
    /\ UNCHANGED x_in
    /\ UNCHANGED <<matchVars, locVars, parmVars, packVars, fixVars>>

(***************************************************************************)
(* Specification SpecExpand: one expansion of a class or function template *)
(***************************************************************************)

\* most arguments a parameter pack is given
MaxPack == 2

\* most members a class template is declared with
MaxMembers == 2

\* template<class T>, template<class T, class... Ts>, template<class... Ts>
ExpandParmLists ==
    { <<TypeParm("T")>>, <<TypeParm("T"), PackParm("Ts")>>, <<PackParm("Ts")>> }

\* members of the class template X:  T h(T t);  T m;  X(Ts&... a);
\* void f(T t, Ts*... p);  template<class... U> void g(U&... u);  ~X();
\* A::X o;
MemberPool ==
    << XNode("cdecl", Null, "h", "T", "f(T).", <<TParm("t", "T", Null)>>),
       XNode("cdecl", Null, "m", "T", Null, <<>>),
       XNode("constructor", Null, "X", Null, "f(v.r.Ts).",
             <<TParm("a", "v.r.Ts", Null)>>),
       XNode("cdecl", Null, "f", "void", "f(T,v.p.Ts).",
             <<TParm("t", "T", Null), TParm("p", "v.p.Ts", Null)>>),
       [XNode("template", "cdecl", "g", "void", "f(v.r.U).",
              <<TParm("u", "v.r.U", Null)>>)
          EXCEPT !.templateparms = <<PackParm("U")>>],
       XNode("destructor", Null, "~X", Null, "f().", <<>>),
       XNode("cdecl", Null, "o", "A::X", Null, <<>>) >>

\* the members that expand the pack Ts of the class template
UsesClassPack(m) == m.name \in {"X", "f"}

\* the member lists a class template with template parameters tps can have
MemberLists(tps) ==
    { SelectSeq(MemberPool, LAMBDA m : m.name \in S) :
        S \in { R \in SUBSET { MemberPool[i].name : i \in 1..Len(MemberPool) } :
                  /\ Cardinality(R) <= MaxMembers
                  /\ (ParmList_variadic_parm(tps) = 0
                        => \A i \in 1..Len(MemberPool) :
                              MemberPool[i].name \in R => ~UsesClassPack(MemberPool[i])) } }

\* the base lists a class template with template parameters tps can have
BaseLists(tps) ==
    {<<>>, <<"Base<(T)>">>}
    \cup (IF ParmList_variadic_parm(tps) # 0
          THEN {<<"Base", "v.Ts">>, <<"v.Ts">>, <<"v.Ts", "Base">>} ELSE {})

\* template<tps> class X : bases { members };
ClassTemplate(tps, bases, members) ==
    [XNode("template", "class", "X", Null, Null, <<>>)
       EXCEPT !.templateparms = tps, !.baselist = bases, !.children = members,
              !.symname = "X"]

\* template<class... Ts> void fn(Ts... a);  template<class T> T fn(T t);
\* template<class T> class X<T*> { T h(T t); };
\* template<> class X<int> { A::X o; X h(X t); };
OtherTemplates ==
    { [XNode("template", "cdecl", "fn", "void", "f(v.Ts).", <<TParm("a", "v.Ts", Null)>>)
         EXCEPT !.templateparms = <<PackParm("Ts")>>, !.symname = "fn"],
      [XNode("template", "cdecl", "fn", "T", "f(T).", <<TParm("t", "T", Null)>>)
         EXCEPT !.templateparms = <<TypeParm("T")>>, !.symname = "fn"],
      [XNode("template", "class", "X", Null, Null, <<>>)
         EXCEPT !.templateparms = <<TypeParm("T")>>, !.partialargs = <<"p.$1">>,
                !.children = <<MemberPool[1]>>, !.symname = "X"],
      [XNode("template", "class", "X", Null, Null, <<>>)
         EXCEPT !.children = << MemberPool[7],
                                XNode("cdecl", Null, "h", "X", "f(X).",
                                      <<TParm("t", "X", Null)>>) >>,
                !.symname = "X"] }

ExpandTemplates ==
    { ClassTemplate(tps, bases, members) :
        tps \in ExpandParmLists, bases \in BaseLists(<<PackParm("Ts")>>),
        members \in MemberLists(<<PackParm("Ts")>>) }

\* the templates the parser can have built
ValidTemplates ==
    { t \in ExpandTemplates :
        /\ t.baselist \in BaseLists(t.templateparms)
        /\ t.children \in MemberLists(t.templateparms) }
    \cup OtherTemplates

\* the argument types a template with template parameters tps is
\* instantiated with
ExpandArgTypes(tps) ==
    { q \in SeqsUpTo({"int", "p.double"}, Len(tps) + MaxPack) :
        IF ParmList_variadic_parm(tps) # 0
        THEN Len(q) >= Len(tps) - 1 /\ Len(q) <= Len(tps) - 1 + MaxPack
        ELSE IF Len(tps) = 0 THEN Len(q) = 1
        ELSE Len(q) = Len(tps) }

\* the arguments as Swig_cparse_template_parms_expand hands them over: named
\* after the template parameters
PreparedArgs(tps, types) ==
    [i \in 1..Len(types) |->
        TParm(IF i <= Len(tps) THEN tps[i].name ELSE Null, types[i], Null)]

MatchIdle ==
    /\ m_in = [type |-> "", partial |-> "", idx |-> 0]
    /\ m_out = [match |-> 0, priority |-> 0]

InitExpand ==
    /\ pc = "template"
    /\ \E t \in ValidTemplates :
          \E types \in ExpandArgTypes(t.templateparms) :
             x_in = [n |-> t,
                     tparms |-> PreparedArgs(t.templateparms,
                                   IF Len(t.partialargs) > 0
                                   THEN [i \in 1..Len(types) |-> "p." \o types[i]]
                                   ELSE types),
                     rname |-> t.name \o "i"]
    /\ x_out = [typelist |-> <<>>, bases |-> <<>>, tparms |-> <<>>, failed |-> "none",
               log |-> <<>>, pairs |-> <<>>]
    /\ w_out = WalkIdle
    /\ d_in = [parms |-> <<>>, primary |-> NoNode]
    /\ d_out = <<>>
    /\ MatchIdle
    /\ LocIdle
    /\ PackIdle
    /\ FixIdle

NextExpand == Expand

SpecExpand == InitExpand /\ [][NextExpand]_vars

(***************************************************************************)
(* Specification SpecWalk: a sequence of expansions of class templates     *)
(* with destructors, nested classes, %extend blocks and member templates   *)
(***************************************************************************)

\* most expansions in a run
MaxExpansions == 2

\* the next %template directive hands the copy of a template to the expander
Instantiate(t, tparms, rname) ==
    /\ pc = "expanded"
    /\ w_out.count < MaxExpansions
    /\ x_in' = [n |-> t, tparms |-> tparms, rname |-> rname]
    /\ pc' = "template"
    /\ UNCHANGED <<x_out, w_out>>
    /\ UNCHANGED <<matchVars, locVars, parmVars, packVars, fixVars>>

\* ~X();  ~X<T>();  ~XN();  ~N();
Destructor(name) ==
    [XNode("destructor", Null, name, Null, "f().", <<>>) EXCEPT !.symname = name]

\* template<class U> void g(U u);
MemberFunctionTemplate ==
    [XNode("template", "cdecl", "g", "void", "f(U).", <<TParm("u", "U", Null)>>)
       EXCEPT !.templateparms = <<TypeParm("U")>>]

\* template<class U> class M { template<class V> void k(V v); U u; };
MemberClassTemplate ==
    [XNode("template", "class", "M", Null, Null, <<>>)
       EXCEPT !.templateparms = <<TypeParm("U")>>, !.symname = "M",
              !.children = << [XNode("template", "cdecl", "k", "void", "f(V).",
                                     <<TParm("v", "V", Null)>>)
                                 EXCEPT !.templateparms = <<TypeParm("V")>>],
                              XNode("cdecl", Null, "u", "U", Null, <<>>) >>]

\* what a class template X can hold: destructors, a nested class with its
\* own destructor, an %extend block, member templates, a member in error
WalkMembers ==
    << Destructor("~X"),
       Destructor("~X<(T)>"),
       [XNode("class", Null, "XN", Null, Null, <<>>)
          EXCEPT !.symname = "XN", !.children = <<Destructor("~XN"), MemberFunctionTemplate>>],
       [XNode("extend", Null, Null, Null, Null, <<>>)
          EXCEPT !.children = <<Destructor("~X")>>],
       [XNode("extend", Null, Null, Null, Null, <<>>)
          EXCEPT !.children = << [XNode("class", Null, "N", Null, Null, <<>>)
                                    EXCEPT !.symname = "N",
                                           !.children = <<Destructor("~X")>>] >>],
       MemberFunctionTemplate,
       MemberClassTemplate,
       [MemberFunctionTemplate EXCEPT !.error = TRUE],
       MemberPool[1] >>

\* template<class T> class X { members };
WalkRoots ==
    { ClassTemplate(<<TypeParm("T")>>, <<>>, PickFrom(WalkMembers, S, 1)) :
        S \in { {1}, {2}, {3}, {4}, {5}, {6}, {7}, {8}, {1, 3}, {2, 7}, {9, 6},
                {3, 7, 1} } }

WalkArgs == PreparedArgs(<<TypeParm("T")>>, <<"int">>)

InitWalk ==
    /\ pc = "template"
    /\ \E t \in WalkRoots : x_in = [n |-> t, tparms |-> WalkArgs, rname |-> "Xi"]
    /\ x_out = [typelist |-> <<>>, bases |-> <<>>, tparms |-> <<>>, failed |-> "none",
               log |-> <<>>, pairs |-> <<>>]
    /\ w_out = WalkIdle
    /\ d_in = [parms |-> <<>>, primary |-> NoNode]
    /\ d_out = <<>>
    /\ MatchIdle
    /\ LocIdle
    /\ PackIdle
    /\ FixIdle

NextWalk ==
    \/ Expand
    \/ \E t \in WalkRoots : \E rname \in {"Xi", "Xd"} : Instantiate(t, WalkArgs, rname)

SpecWalk == InitWalk /\ [][NextWalk]_vars

(***************************************************************************)
(* Specification SpecVariadic: one call of expand_variadic_parms           *)
(***************************************************************************)

\* the parameters before the last one of an attribute's list
PlainParms == { Parm("int"), Parm("r.q(const).A"), TParm("n", "p.Ts", Null) }

\* the last parameter: Ts... ts, Ts&... ts, Ts const *... ts, int... ns,
\* or one that is not variadic
LastParms ==
    { TParm("ts", "v.Ts", Null), TParm("ts", "v.r.Ts", Null),
      TParm("ts", "v.p.q(const).Ts", Null), TParm("ns", "v.int", Null),
      TParm("ts", "v.f(Ts).Ts", Null), Parm("p.Ts") }

\* an attribute's parameter list: only its last parameter may be variadic
PackAttrLists ==
    {<<>>} \cup { Append(q, l) : q \in SeqsUpTo(PlainParms, 2), l \in LastParms }
           \cup { q \in SeqsUpTo(PlainParms, 2) : Len(q) > 0 }

\* the pack arguments: the template arguments from the pack's position on
PackArgs ==
    SeqsUpTo({ TParm("Ts", "int", Null), Parm("p.double"), Parm("A<(int)>") }, MaxPack)

InitVariadic ==
    /\ pc = "packing"
    /\ \E p \in PackAttrLists : \E uvp \in {NoParm, PackParm("Ts")} :
          \E evp \in PackArgs :
             v_in = [p |-> p, uvp |-> uvp,
                     evp |-> IF uvp = NoParm THEN <<>> ELSE evp]
    /\ v_out = <<>>
    /\ FixIdle
    /\ ExpIdle
    /\ MatchIdle
    /\ LocIdle

NextVariadic == ExpandPack

SpecVariadic == InitVariadic /\ [][NextVariadic]_vars

(***************************************************************************)
(* cparse_fix_function_decl                                                *)
(***************************************************************************)

\* SwigType_last: the last element of a type, with the '.' that ends it;
\* Null for the empty type
SwigType_last(t) ==
    IF Len(t) = 0 THEN Null
    ELSE SubSeq(t,
                LastDot(t, IF Ch(t, Len(t)) = "." THEN Len(t) - 1 ELSE Len(t)) + 1,
                Len(t))

SwigType_isqualifier(t) == StartsAt(t, "q(", 1)

SwigType_isarray(t) == StartsAt(t, "a(", 1)

\* a variant of the loop of lines 335-346 that stops at an array element
RECURSIVE StripTrailing_qualifiers(_)
StripTrailing_qualifiers(prefix) ==
    IF SwigType_last(prefix) = Null THEN prefix
    ELSE IF SwigType_isqualifier(SwigType_last(prefix))
    THEN StripTrailing_qualifiers(
             SubSeq(prefix, 1, Len(prefix) - Len(SwigType_last(prefix))))
    ELSE prefix

\* lines 334-346: the prefix without its trailing qualifier and array
\* elements
RECURSIVE StripTrailing(_)
StripTrailing(prefix) ==
    IF SwigType_last(prefix) = Null THEN prefix
    ELSE IF \/ SwigType_isqualifier(SwigType_last(prefix))
            \/ SwigType_isarray(SwigType_last(prefix))
    THEN StripTrailing(SubSeq(prefix, 1, Len(prefix) - Len(SwigType_last(prefix))))
    ELSE prefix

\* lines 349-356: the prefix is appended to decl and cut off the type
TransferPrefix(decl, type, prefix) ==
    IF Len(prefix) > 0
    THEN [decl |-> decl \o prefix, type |-> SubSeq(type, Len(prefix) + 1, Len(type))]
    ELSE [decl |-> decl, type |-> type]

\* cparse_fix_function_decl(name, decl, type): decl and type afterwards
cparse_fix_function_decl(decl, type) ==
    TransferPrefix(decl, type, StripTrailing(SwigType_prefix(type)))

\* most calls of cparse_fix_function_decl on one declaration
MaxFixes == 2

\* one call cparse_fix_function_decl(name, decl, type) on the declaration
FixDecl ==
    /\ pc = "fixing"
    /\ fx.n < MaxFixes
    /\ fx' = [in |-> fx.in, prev |-> fx.out,
              out |-> cparse_fix_function_decl(fx.out.decl, fx.out.type),
              n |-> fx.n + 1]
    /\ UNCHANGED pc
    /\ UNCHANGED <<matchVars, locVars, expVars, parmVars, packVars>>

(***************************************************************************)
(* Specification SpecFix: calls of cparse_fix_function_decl on a function  *)
(* declaration                                                             *)
(***************************************************************************)

\* most type constructors in front of the base of a return type
MaxFragments == 3

\* pointer, reference, const, array, function, member pointer
TypeFragments == {"p.", "r.", "q(const).", "a(3).", "f(int).", "m(C)."}

RECURSIVE Concat(_, _)
Concat(q, i) == IF i > Len(q) THEN "" ELSE q[i] \o Concat(q, i + 1)

FixTypes ==
    { Concat(q, 1) \o base : q \in SeqsUpTo(TypeFragments, MaxFragments),
                             base \in {"char", "Vec<(p.int)>"} }

FixDecls == {"f().", "f(int,p.char).p."}

InitFix ==
    /\ pc = "fixing"
    /\ \E decl \in FixDecls : \E type \in FixTypes :
          fx = [in |-> [decl |-> decl, type |-> type],
                prev |-> [decl |-> decl, type |-> type],
                out |-> [decl |-> decl, type |-> type], n |-> 0]
    /\ PackIdle
    /\ ExpIdle
    /\ MatchIdle
    /\ LocIdle

NextFix == FixDecl

SpecFix == InitFix /\ [][NextFix]_vars

(***************************************************************************)
(* Swig_cparse_template_parms_expand                                       *)
(***************************************************************************)

\* merge_parameters: the arguments take the names of the template
\* parameters, and their types where they have none
merge_parameters(expanded_templateparms, templateparms) ==
    [i \in 1..Len(expanded_templateparms) |->
        IF i <= Len(templateparms)
        THEN [expanded_templateparms[i] EXCEPT
                !.name = templateparms[i].name,
                !.type = IF @ = Null THEN templateparms[i].type ELSE @]
        ELSE expanded_templateparms[i]]

\* mark_defaults
mark_defaults(defaults) ==
    [i \in 1..Len(defaults) |-> [defaults[i] EXCEPT !.default = TRUE]]

\* lines 1199-1208: tp after Replaceid(tv, name, value) with the (name,
\* value) pair of p; tv is tp's value, else its type, and is changed in place
ExpandDefault(tp, p) ==
    IF p.name = Null \/ ValueOf(tp) = Null \/ ValueOf(p) = Null THEN tp
    ELSE IF tp.value # Null
    THEN [tp EXCEPT !.value = Replaceid(@, p.name, ValueOf(p)).str]
    ELSE [tp EXCEPT !.type = Replaceid(@, p.name, ValueOf(p)).str]

\* lines 1202-1210: the inner loop over p, from parameter number i on, for
\* the parameter number t
RECURSIVE ExpandDefaultsInner(_, _, _)
ExpandDefaultsInner(expanded_templateparms, t, i) ==
    IF i > Len(expanded_templateparms) THEN expanded_templateparms
    ELSE ExpandDefaultsInner(
             [expanded_templateparms EXCEPT
                ![t] = ExpandDefault(@, expanded_templateparms[i])],
             t, i + 1)

\* lines 1197-1212: the outer loop over tp, from parameter number t on
RECURSIVE ExpandDefaultsOuter(_, _)
ExpandDefaultsOuter(expanded_templateparms, t) ==
    IF t > Len(expanded_templateparms) THEN expanded_templateparms
    ELSE ExpandDefaultsOuter(ExpandDefaultsInner(expanded_templateparms, t, 1), t + 1)

\* expand_defaults
expand_defaults(expanded_templateparms) ==
    ExpandDefaultsOuter(expanded_templateparms, 1)

\* Swig_cparse_template_parms_expand(instantiated_parms, primary, templ)
Swig_cparse_template_parms_expand(instantiated_parms, primary) ==
    IF primary.templatetype = "class"
    THEN IF /\ ParmList_variadic_parm(primary.templateparms) = 0
            /\ Len(ParmList_nth_parm(primary.templateparms,
                                     ParmList_len(instantiated_parms))) > 0
         THEN expand_defaults(
                  merge_parameters(instantiated_parms, primary.templateparms)
                  \o mark_defaults(ParmList_nth_parm(primary.templateparms,
                                                     ParmList_len(instantiated_parms))))
         ELSE merge_parameters(instantiated_parms, primary.templateparms)
    ELSE merge_parameters(instantiated_parms, primary.templateparms)

\* the preparation of the arguments d_in.parms for the template d_in.primary
PrepareParms ==
    /\ pc = "instantiating"
    /\ d_out' = Swig_cparse_template_parms_expand(d_in.parms, d_in.primary)
    /\ pc' = "prepared"
    /\ UNCHANGED d_in
    /\ UNCHANGED <<matchVars, locVars, expVars, packVars, fixVars>>

(***************************************************************************)
(* Specification SpecParms: one preparation of a template argument list    *)
(***************************************************************************)

\* most arguments written in a %template directive
MaxWritten == 2

\* template<class K, class C = Less<K> >
\* template<class A, class B, class C = Less<A> >
\* template<class A, class B = A, class C = Pair<A,B> >
\* template<int N, class C = Arr<N> >
\* template<class T, class... Ts>
ParmsClassLists ==
    { <<TypeParm("K"), DefParm("C", "Less<(K)>")>>,
      <<TypeParm("A"), TypeParm("B"), DefParm("C", "Less<(A)>")>>,
      <<TypeParm("A"), DefParm("B", "A"), DefParm("C", "Pair<(A,B)>")>>,
      <<TParm("N", "int", Null), DefParm("C", "Arr<(N)>")>>,
      <<TypeParm("T"), PackParm("Ts")>> }

\* template<class T, class U = T> void fn(T t, U u)
ParmsFunctionLists == { <<TypeParm("T"), DefParm("U", "T")>> }

\* the primary templates arguments are prepared for
ParmsPrimaries ==
    { Node("T1", "template", "class", tps, <<>>, 1) : tps \in ParmsClassLists }
    \cup { Node("T1", "template", "cdecl", tps, <<>>, 1) : tps \in ParmsFunctionLists }

\* the arguments written: types, among them types named like a template
\* parameter, and the value 3
WrittenArgs ==
    { Parm(t) : t \in {"int", "p.double", "A", "B", "K"} }
    \cup { TParm(Null, Null, "3") }

InitParms ==
    /\ pc = "instantiating"
    /\ \E primary \in ParmsPrimaries :
          \E parms \in SeqsUpTo(WrittenArgs, MaxWritten) :
             d_in = [parms |-> parms, primary |-> primary]
    /\ d_out = <<>>
    /\ x_in = [n |-> NoNode, tparms |-> <<>>, rname |-> Null]
    /\ x_out = [typelist |-> <<>>, bases |-> <<>>, tparms |-> <<>>, failed |-> "none",
               log |-> <<>>, pairs |-> <<>>]
    /\ w_out = WalkIdle
    /\ MatchIdle
    /\ LocIdle
    /\ PackIdle
    /\ FixIdle

NextParms == PrepareParms

SpecParms == InitParms /\ [][NextParms]_vars

(***************************************************************************)
(* Claims about does_parm_match (checked under SpecMatch)                  *)
(***************************************************************************)

\* what the claims speak of, for the pair in m_in
M_reduced == Swig_symbol_typedef_reduce(m_in.type)
M_subst == Replaceid(m_in.partial, DollarVar(m_in.idx), SwigType_base(M_reduced))
M_removed == Replaceid(m_in.partial, DollarVar(m_in.idx), "").str
M_startsWith ==
    /\ Len(M_removed) <= Len(M_reduced)
    /\ SubSeq(M_reduced, 1, Len(M_removed)) = M_removed
M_isExact == m_out.match = ExactMatch /\ m_out.priority = EXACT_MATCH_PRIORITY
M_isDeduced == m_out.match = PartiallySpecializedMatch
M_isNoMatch == m_out.match < PartiallySpecializedMatch /\ m_out.priority = -1

\* C2 as stated: an exact match (priority 99999) iff zero substitutions were
\* made and the reduced type equals P; with exactly one substitution a deduced
\* match iff the reduced type starts with P-without-$i, priority the length of
\* that prefix; every other outcome, two or more substitutions included, is a
\* non-match with priority -1.
C2_AsStated ==
    pc = "done" =>
        /\ M_isExact <=> (M_subst.n = 0 /\ M_reduced = m_in.partial)
        /\ M_subst.n = 1 =>
              /\ M_isDeduced <=> M_startsWith
              /\ M_isDeduced => m_out.priority = Len(M_removed)
        /\ (~M_isExact /\ ~(M_subst.n = 1 /\ M_isDeduced)) => M_isNoMatch
        /\ M_subst.n >= 2 => M_isNoMatch

\* C2 amended: an exact match (priority 99999) iff the number of
\* substitutions is not one and the reduced type equals P with $i replaced by
\* the base (so also after two or more substitutions); with exactly one
\* substitution a deduced match iff the reduced type starts with P-without-$i,
\* priority the length of that prefix; every other outcome is a non-match with
\* priority -1.
C2_MatchLaw ==
    pc = "done" =>
        /\ M_isExact <=> (M_subst.n # 1 /\ M_reduced = M_subst.str)
        /\ M_subst.n = 1 =>
              /\ M_isDeduced <=> M_startsWith
              /\ M_isDeduced => m_out.priority = Len(M_removed)
        /\ M_isDeduced => M_subst.n = 1
        /\ (~M_isExact /\ ~M_isDeduced) => M_isNoMatch

\* C2 witness: a candidate in which $i was substituted twice is reported as an
\* exact match.
C2_Witness ==
    /\ pc = "done"
    /\ M_subst.n >= 2
    /\ M_isExact

(***************************************************************************)
(* Claims about the arity check (checked under SpecArity)                  *)
(***************************************************************************)

\* the primary's template parameters and the number of arguments requested
A_tparms == Swig_symbol_clookup(symtab, TName).templateparms
A_len == ParmList_len(req.parms)
A_inRange ==
    /\ ParmList_numrequired(A_tparms) <= A_len
    /\ A_len <= ParmList_len(A_tparms)
A_arityError ==
    \E i \in 1..Len(diag) : diag[i].kind \in {"TooMany", "NotEnough"}

\* C1 as stated: for a non-variadic class-template primary with k required
\* and n total parameters, Swig_cparse_template_locate returns a node iff
\* k <= len(instantiated_parms) <= n, and for every other argument count it
\* emits an arity error and returns no node (requests that an explicit
\* specialization answers are left aside).
C1_AsStated ==
    (req # NoReq /\ ParmList_variadic_parm(A_tparms) = 0 /\ loc.n.id # "S1")
        => /\ (ret # "none") <=> A_inRange
           /\ ~A_inRange => (A_arityError /\ ret = "none" /\ instantiate = {})

(***************************************************************************)
(* Claims about the partial-specialization search (checked under           *)
(* SpecPartials)                                                           *)
(***************************************************************************)

\* the declarations the request was located in
P_decls == SubSeq(symtab, 1, Len(partials) + 1)
P_len == ParmList_len(loc.parms)
P_id(sym) == Swig_symbol_clookup(P_decls, sym).id
P_pp(sym) == Swig_symbol_clookup(P_decls, sym).partialparms
P_ids == { c.id : c \in PartialPool }

\* the orders the "partials" list can be in
P_reorderings ==
    { [i \in 1..Len(partials) |-> partials[f[i]]] :
        f \in Permutations(1..Len(partials)) }

\* what template_locate selects for the same request with the list in order q
P_selected(q) ==
    template_locate(P_decls, q, TName, req.parms, req.symname, req.line).n.id

\* survivor number i (discovery order) is highest in every column
P_columnBest(i) ==
    /\ Len(loc.survivors) > 1
    /\ RowSum(loc.flags, i - 1, 1, P_len) = P_len

P_best == { i \in 1..Len(loc.survivors) : P_columnBest(i) }

\* the priority row of survivor number i
P_row(i) == [c \in 1..P_len |-> loc.matrix[(i - 1) * P_len + c]]

P_reported(kind, id) ==
    \E k \in 1..Len(diag) : diag[k].kind = kind /\ diag[k].node = id

\* C3 as stated: for a fixed instantiation, reordering the primary's
\* "partials" list in any way does not change which partial specialization
\* template_locate selects.
C3_AsStated ==
    req # NoReq => \A q \in P_reorderings : P_selected(q) = loc.n.id

\* C3 amended: reordering the list does not change the selection when at
\* most one candidate survives the scoring or exactly one survivor is highest
\* in every column; otherwise the selection is the first of the remaining
\* candidates in list order.
C3_PermutationLaw ==
    req # NoReq =>
        /\ (Len(loc.survivors) <= 1 \/ Cardinality(P_best) = 1)
              => \A q \in P_reorderings : P_selected(q) = loc.n.id
        /\ (Len(loc.survivors) > 1 /\ Cardinality(P_best) # 1)
              => /\ loc.n.id = P_id(loc.possible[1])
                 /\ \A i, j \in 1..Len(partials) :
                       (partials[j] = loc.possible[1]
                        /\ \E k \in 1..Len(loc.possible) : loc.possible[k] = partials[i])
                          => j <= i

\* C3 witness: several survivors, exactly one highest in every column, and it
\* is not the first of the list, yet it is selected
C3_Witness ==
    /\ req # NoReq
    /\ Len(loc.survivors) > 1
    /\ Cardinality(P_best) = 1
    /\ loc.n.id \in P_ids
    /\ loc.n.id # P_id(loc.survivors[1])

\* C4 as stated: whenever two surviving candidates have identical priority
\* rows, template_locate chooses the one that comes first in discovery order
\* and both candidates are reported as ignored in the ambiguity warning.
C4_AsStated ==
    req # NoReq =>
        \A a, b \in 1..Len(loc.survivors) :
            (a < b /\ P_row(a) = P_row(b))
                => /\ loc.n.id = P_id(loc.survivors[a])
                   /\ P_reported("AmbigIgnored", P_id(loc.survivors[a]))
                   /\ P_reported("AmbigIgnored", P_id(loc.survivors[b]))

\* C4 amended: whenever two surviving candidates have identical priority
\* rows and are highest in every column, template_locate chooses the first
\* candidate in discovery order that is highest in every column and reports
\* it as used, not as ignored; every other candidate highest in every column
\* (the later of the two among them) is reported as ignored.
C4_AmbiguityLaw ==
    req # NoReq =>
        \A a, b \in 1..Len(loc.survivors) :
            (a < b /\ P_row(a) = P_row(b) /\ P_columnBest(a))
                => LET first == CHOOSE i \in P_best : \A j \in P_best : i <= j
                   IN  /\ P_columnBest(b)
                       /\ loc.n.id = P_id(loc.survivors[first])
                       /\ diag[1] = Diag("AmbigInstantiation", req.line, Null)
                       /\ P_reported("AmbigUsed", loc.n.id)
                       /\ ~P_reported("AmbigIgnored", loc.n.id)
                       /\ \A i \in P_best \ {first} :
                             P_reported("AmbigIgnored", P_id(loc.survivors[i]))
                       /\ P_reported("AmbigIgnored", P_id(loc.survivors[b]))

\* C4 witness: two survivors with identical rows, both highest in every
\* column, the first of them selected and the other reported as ignored
C4_Witness ==
    /\ req # NoReq
    /\ \E a, b \in 1..Len(loc.survivors) :
          /\ a < b
          /\ P_row(a) = P_row(b)
          /\ P_columnBest(a)
          /\ loc.n.id = P_id(loc.survivors[a])
          /\ P_reported("AmbigIgnored", P_id(loc.survivors[b]))

\* C5 as stated: whenever template_locate returns a partial specialization,
\* the length of its partialparms equals the number of instantiated
\* arguments; a candidate whose partialparms length differs is never scored,
\* never enters the priority matrix and is never chosen.
C5_AsStated ==
    req # NoReq =>
        /\ loc.n.id \in P_ids
              => ParmList_len(loc.n.partialparms) = ParmList_len(req.parms)
        /\ \A i \in 1..Len(partials) :
              ParmList_len(P_pp(partials[i])) # ParmList_len(req.parms)
                 => /\ \A k \in 1..Len(loc.scored) : loc.scored[k] # partials[i]
                    /\ \A k \in 1..Len(loc.survivors) : loc.survivors[k] # partials[i]
                    /\ loc.n.id # P_id(partials[i])

\* C5 amended: whenever template_locate returns a partial specialization,
\* the length of its partialparms equals the length of the argument list
\* after the primary's default arguments were appended to it; a candidate
\* whose partialparms length differs from that length is never scored, never
\* enters the priority matrix and is never chosen.
C5_ArityLaw ==
    req # NoReq =>
        /\ loc.n.id \in P_ids => ParmList_len(loc.n.partialparms) = P_len
        /\ \A i \in 1..Len(partials) :
              ParmList_len(P_pp(partials[i])) # P_len
                 => /\ \A k \in 1..Len(loc.scored) : loc.scored[k] # partials[i]
                    /\ \A k \in 1..Len(loc.survivors) : loc.survivors[k] # partials[i]
                    /\ loc.n.id # P_id(partials[i])
        /\ Len(loc.matrix) = Len(partials) * P_len

\* C5 witness: fewer arguments than the primary has parameters, a partial
\* specialization returned, and a candidate of another length passed over
C5_Witness ==
    /\ req # NoReq
    /\ loc.n.id \in P_ids
    /\ ParmList_len(req.parms) < P_len
    /\ \E i \in 1..Len(partials) : ParmList_len(P_pp(partials[i])) # P_len

\* survivor number i has the highest priority of its column in every column
\* of the priority matrix
P_highest(i) ==
    \A c \in 1..P_len : \A j \in 1..Len(loc.survivors) : P_row(i)[c] >= P_row(j)[c]

\* two or more candidates survive the scoring and none is highest in every
\* column
P_noWinner ==
    /\ req # NoReq
    /\ Len(loc.survivors) >= 2
    /\ \A i \in 1..Len(loc.survivors) : ~P_highest(i)

\* C18: when two or more candidates survive the scoring and none of them is
\* highest in every column, template_locate selects the first survivor in
\* discovery order and emits an ambiguity warning that names it as used and
\* each other survivor as ignored.
C18_NoWinnerLaw ==
    P_noWinner =>
        /\ loc.n.id = P_id(loc.survivors[1])
        /\ Len(diag) >= Len(loc.survivors) + 1
        /\ diag[1] = Diag("AmbigInstantiation", req.line, Null)
        /\ diag[2].kind = "AmbigUsed" /\ diag[2].node = P_id(loc.survivors[1])
        /\ \A k \in 2..Len(loc.survivors) :
               /\ diag[k + 1].kind = "AmbigIgnored"
               /\ diag[k + 1].node = P_id(loc.survivors[k])
        /\ \A k \in 1..Len(diag) :
               diag[k].kind = "AmbigIgnored" => diag[k].node # loc.n.id

\* X<int*, T2> declared before X<T1, double*>, instantiated as
\* X<int*, double*>: the first is used, the second ignored
C18_Witness ==
    /\ P_noWinner
    /\ partials = <<"X<(p.int,$2)>", "X<($1,p.double)>">>
    /\ ret = "PB"
    /\ P_reported("AmbigUsed", "PB")
    /\ P_reported("AmbigIgnored", "PA")

(***************************************************************************)
(* Claims about repeated instantiations (checked under SpecDup)            *)
(***************************************************************************)

\* the instantiations registered in tab for the combination named tname
D_prior(tab, tname) ==
    { i \in 1..Len(tab) :
        /\ tab[i].node.template # Null
        /\ tab[i].name = Swig_symbol_typedef_reduce(tname) }

D_priorNamed(tab, tname) == { i \in D_prior(tab, tname) : ~tab[i].node.hidden }

D_first(S) == CHOOSE i \in S : \A j \in S : i <= j

\* C6 as stated: once a named instantiation of the same template and
\* arguments exists, every later named request returns no node, sets no
\* instantiate flag and emits exactly two TypeRedefined warnings, one at the
\* location of the new request and one at the location of the previous named
\* instantiation.
C6_AsStated ==
    [][ (left' = left - 1 /\ req'.symname # Null
         /\ D_priorNamed(symtab, loc'.tname) # {})
            => /\ ret' = "none"
               /\ instantiate' = instantiate
               /\ Len(diag') = 2
               /\ diag'[1].kind = "TypeRedefined" /\ diag'[1].line = req'.line
               /\ diag'[2].kind = "TypeRedefined"
               /\ diag'[2].line
                     = symtab[D_first(D_priorNamed(symtab, loc'.tname))].node.line
      ]_vars

\* C7: an empty request for a combination that already has a prior
\* instantiation (empty or named) returns no node, emits no warning and no
\* error, and leaves every node's instantiate flag unchanged.
C7_EmptyDuplicate ==
    [][ (left' = left - 1 /\ req'.symname = Null
         /\ D_prior(symtab, loc'.tname) # {})
            => /\ ret' = "none"
               /\ diag' = <<>>
               /\ instantiate' = instantiate
      ]_vars

\* C7 witness: an empty request was just answered with no node while an
\* instantiation of the combination was registered
C7_Witness ==
    /\ req # NoReq
    /\ req.symname = Null
    /\ ret = "none"
    /\ D_prior(symtab, loc.tname) # {}

\* C8: a named request issued after only empty instantiations of the same
\* template and arguments returns the template node recorded in the prior
\* instantiation's "template" attribute, emits no duplicate warning, and that
\* node ends up flagged instantiate.
C8_NamedAfterEmpty ==
    [][ (left' = left - 1 /\ req'.symname # Null
         /\ D_prior(symtab, loc'.tname) # {}
         /\ D_priorNamed(symtab, loc'.tname) = {})
            => /\ ret' = symtab[D_first(D_prior(symtab, loc'.tname))].node.template
               /\ \A k \in 1..Len(diag') : diag'[k].kind # "TypeRedefined"
               /\ ret' \in instantiate'
      ]_vars

\* C8 witness: the instantiation registered last is named, it is the only
\* named one of its combination, and a hidden one precedes it
C8_Witness ==
    /\ req # NoReq
    /\ req.symname # Null
    /\ ret # "none"
    /\ D_priorNamed(symtab, loc.tname) = {Len(symtab)}
    /\ D_prior(symtab, loc.tname) # {Len(symtab)}

(***************************************************************************)
(* Claims about the expansion (checked under SpecExpand)                   *)
(***************************************************************************)

X_done == pc \in {"expanded", "aborted"}

\* C9 (as stated; violated): after Swig_cparse_template_expand no type
\* string collected in typelist is variadic, and the assertions
\* !SwigType_isvariadic(s) of the substitution phase hold, for every template
\* tree, also one that has a pack parameter in a parameter list while the
\* instantiated template has no variadic template parameter.
C9_AsStated ==
    X_done =>
        /\ x_out.failed # AssertNotVariadic
        /\ (x_out.failed = NoAssert =>
              \A i \in 1..Len(x_out.typelist) : ~SwigType_isvariadic(x_out.typelist[i]))

(***************************************************************************)
(* Claims about the argument preparation (checked under SpecParms)         *)
(***************************************************************************)

D_templateparms == d_in.primary.templateparms

\* the parameters appended from the primary's defaults
D_appended == { i \in (Len(d_in.parms) + 1)..Len(d_out) : d_out[i].default }

\* C10 (as stated; violated): after Swig_cparse_template_parms_expand, every
\* parameter P appended from the primary's defaults whose default value
\* referenced the name of an earlier template parameter Q has a value with
\* no identifier occurrence of Q's name left, whatever the arguments are.
C10_AsStated ==
    pc = "prepared" =>
        \A P \in D_appended : \A Q \in 1..(P - 1) :
            (/\ D_templateparms[P].value # Null
             /\ Occurrences(D_templateparms[P].value, D_templateparms[Q].name) # {})
            => Occurrences(d_out[P].value, D_templateparms[Q].name) = {}

\* the number of arguments written, and the case of fewer arguments than
\* a non-variadic primary has template parameters
D_written == Len(d_in.parms)
D_fewer ==
    /\ pc = "prepared"
    /\ ParmList_variadic_parm(D_templateparms) = 0
    /\ D_written < Len(D_templateparms)

\* C14 (as stated; violated): for a primary whose template parameter list
\* is not variadic and that is given fewer arguments than it has template
\* parameters, Swig_cparse_template_parms_expand returns the copied
\* arguments followed by copies of the primary's parameters from index
\* len(instantiated_parms) onward; exactly the appended parameters carry
\* default=1, and the output is never shorter than the arguments.
C14_AsStated ==
    /\ pc = "prepared" => Len(d_out) >= D_written
    /\ D_fewer =>
        /\ Len(d_out) = Len(D_templateparms)
        /\ \A i \in 1..D_written :
               /\ d_out[i].value = d_in.parms[i].value
               /\ d_out[i].type = IF d_in.parms[i].type = Null
                                  THEN D_templateparms[i].type
                                  ELSE d_in.parms[i].type
        /\ \A i \in (D_written + 1)..Len(d_out) :
               /\ d_out[i].name = D_templateparms[i].name
               /\ d_out[i].type = D_templateparms[i].type
        /\ \A i \in 1..Len(d_out) : d_out[i].default <=> i > D_written

\* C11 (as stated; violated): the typename replacements on a typelist entry
\* are skipped exactly when the lookup of the entry finds a declaration
\* whose "sym:name" equals the expanded template's and that has no
\* "templatetype"; in every other case, on every path through the
\* substitution phase, they are made.
C11_AsStated ==
    X_done =>
        \A k \in 1..Len(x_out.log) :
            x_out.log[k].replaced <=> TypenameGuard(x_out.log[k].s, x_out.log[k].tsname)

(***************************************************************************)
(* Claims about the errors of a locate call (checked under SpecArity)      *)
(***************************************************************************)

\* the kinds of the fatal errors of a locate call
FatalKinds == {"TemplateUndefined", "NotATemplate", "TooMany", "NotEnough"}

\* C12 (as stated; violated): when a locate call ends in a fatal error
\* (template not found, not a template, arity mismatch), no node's
\* attributes are changed by that call; in particular no node gains the
\* instantiate flag.
C12_AsStated ==
    [][ (left' = left - 1 /\ \E k \in 1..Len(diag') : diag'[k].kind \in FatalKinds)
            => instantiate' = instantiate
      ]_vars

(***************************************************************************)
(* Claims about function templates (checked under SpecFunction)            *)
(***************************************************************************)

\* the request reached the function-template branch of the locate call
F_branch == left = 0 /\ loc.n.id # "none" /\ loc.n.templatetype # "class"

\* positions of the template siblings, non-variadic with exactly as many
\* template parameters as arguments / variadic with at most one more
F_nonvariadic ==
    { i \in 1..Len(FunctionPool) :
        /\ \E j \in 1..Len(symtab) : symtab[j].node.id = FunctionPool[i].node.id
        /\ FunctionPool[i].node.nodeType = "template"
        /\ \A k \in 1..Len(FunctionPool[i].node.templateparms) :
               ~SwigType_isvariadic(FunctionPool[i].node.templateparms[k].type)
        /\ Len(FunctionPool[i].node.templateparms) = Len(req.parms) }

F_variadic ==
    { i \in 1..Len(FunctionPool) :
        /\ \E j \in 1..Len(symtab) : symtab[j].node.id = FunctionPool[i].node.id
        /\ FunctionPool[i].node.nodeType = "template"
        /\ \E k \in 1..Len(FunctionPool[i].node.templateparms) :
               SwigType_isvariadic(FunctionPool[i].node.templateparms[k].type)
        /\ Len(req.parms) >= Len(FunctionPool[i].node.templateparms) - 1 }

F_expected == IF F_nonvariadic # {} THEN F_nonvariadic ELSE F_variadic

F_undefined == \E k \in 1..Len(diag) : diag[k].kind = "TemplateUndefined"

\* C13: a function-template locate flags exactly the non-variadic template
\* siblings whose template-parameter count equals the number of arguments,
\* and the variadic template siblings with len(args) >= len(templateparms)
\* - 1 only when there is no such non-variadic sibling; it returns the first
\* flagged sibling in sibling order, and reports 'Template undefined' and
\* returns no node exactly when nothing is flagged.
C13_FunctionLaw ==
    F_branch =>
        /\ instantiate = { FunctionPool[i].node.id : i \in F_expected }
        /\ ~(\E i \in F_nonvariadic : FunctionPool[i].node.id \in instantiate
             /\ \E j \in F_variadic : FunctionPool[j].node.id \in instantiate)
        /\ IF F_expected = {} THEN ret = "none" /\ F_undefined
           ELSE /\ ~F_undefined
                /\ \E i \in F_expected :
                       /\ ret = FunctionPool[i].node.id
                       /\ \A j \in F_expected : i <= j

\* two non-variadic overloads are flagged although a variadic one could
\* take the arguments, and the first of the two is returned
C13_Witness ==
    /\ F_branch
    /\ instantiate = {"F2", "F4"}
    /\ ret = "F2"
    /\ \E j \in 1..Len(symtab) : symtab[j].node.id = "F3"

(***************************************************************************)
(* Claims about expand_variadic_parms (checked under SpecVariadic)         *)
(***************************************************************************)

\* the attribute ends with a variadic parameter and a pack is in scope
V_old == Len(v_in.p)
V_pack == Len(v_in.evp)
V_applies ==
    /\ v_in.uvp # NoParm
    /\ V_old > 0
    /\ SubSeq(v_in.p[V_old].type, 1, 2) = "v."

\* the type of the variadic parameter without its marker
V_type == SubSeq(v_in.p[V_old].type, 3, Len(v_in.p[V_old].type))

\* C15: when the attribute ends with a variadic parameter V and a pack of m
\* arguments is in scope, expand_variadic_parms leaves the parameters that
\* preceded V, unchanged and in order, followed by m parameters in pack
\* order, the j-th having V's type without the variadic marker and with the
\* pack's name replaced by the j-th pack argument's type; the list has old
\* length - 1 + m entries and none is variadic.  A list without a variadic
\* parameter is left unchanged.
C15_PackExpansion ==
    pc = "packed" =>
        IF V_applies
        THEN /\ Len(v_out) = V_old - 1 + V_pack
             /\ \A i \in 1..(V_old - 1) : v_out[i] = v_in.p[i]
             /\ \A j \in 1..V_pack :
                    v_out[V_old - 1 + j].type =
                        Replaceid(V_type, v_in.uvp.name, v_in.evp[j].type).str
             /\ \A i \in 1..Len(v_out) : SubSeq(v_out[i].type, 1, 2) # "v."
        ELSE (V_old = 0 \/ SubSeq(v_in.p[V_old].type, 1, 2) # "v.") => v_out = v_in.p

\* f(int, Ts const *... ts) expanded with the pack <int, p.double>
C15_Witness ==
    /\ pc = "packed"
    /\ V_applies
    /\ V_old = 2
    /\ V_pack = 2
    /\ v_out[2].type = "p.q(const).int"
    /\ v_out[3].type = "p.q(const).p.double"

(***************************************************************************)
(* Claims about working storage (checked under SpecDup)                    *)
(***************************************************************************)

\* C16 (as stated; violated): every working object allocated inside
\* template_locate (the copied name, the copied parameter list, the
\* candidate list, the priority matrix) has been released when the function
\* returns, on every exit path including the duplicate-instantiation and
\* not-a-template early returns.
C16_AsStated == left < MaxRequests => loc.live = {}

\* C22 (as stated; violated): the parameters produced by pack expansion
\* carry no name: after expand_variadic_parms no parameter of the expanded
\* chain has a "name" attribute, even when the pack arguments passed in do
\* carry one.
C22_AsStated ==
    (pc = "packed" /\ V_applies) =>
        \A j \in 1..V_pack : v_out[V_old - 1 + j].name = Null

(***************************************************************************)
(* Claims about the substitution loop (checked under SpecExpand)           *)
(***************************************************************************)

\* the node's "templateparms" and the number of arguments
S_formals == x_in.n.templateparms

S_args == Len(x_in.tparms)

\* the passes that replaced the name of formal number j
S_substitutions(j) ==
    { i \in 1..Len(x_out.pairs) : x_out.pairs[i].k = j /\ x_out.pairs[i].name # Null }

\* C23: the substitution loop of Swig_cparse_template_expand ends for every
\* pair of lists; pass number j pairs formal number j with argument number j
\* while there are arguments and with the formal itself (its own value, else
\* its type) afterwards; when both lists are non-empty and the expansion
\* returns, the loop has made exactly len(templateparms) passes and has
\* substituted every named formal exactly once; arguments after the last
\* formal are paired with no formal; when a list is empty no pass is made.
C23_SubstitutionLoop ==
    pc \in {"expanded", "aborted"} =>
        /\ Len(x_out.pairs) <= Len(S_formals)
        /\ \A j \in 1..Len(x_out.pairs) :
              /\ x_out.pairs[j].k = j
              /\ x_out.pairs[j].name = S_formals[j].name
              /\ x_out.pairs[j].self = (j > S_args)
              /\ (x_out.pairs[j].name # Null /\ j <= S_args)
                    => x_out.pairs[j].dvalue = DValue(x_out.tparms[j])
              /\ (x_out.pairs[j].name # Null /\ j > S_args
                     /\ (j = S_args + 1 \/ S_formals[j].value = Null))
                    => x_out.pairs[j].dvalue = DValue(S_formals[j])
        /\ (pc = "expanded" /\ S_args > 0 /\ Len(S_formals) > 0)
              => /\ Len(x_out.pairs) = Len(S_formals)
                 /\ \A j \in 1..Len(S_formals) :
                       S_formals[j].name # Null => Cardinality(S_substitutions(j)) = 1
        /\ (S_args = 0 \/ Len(S_formals) = 0) => x_out.pairs = <<>>

\* template<class T, class... Ts> class X instantiated with one argument:
\* the second pass pairs Ts with itself
C23_Witness ==
    /\ pc = "expanded"
    /\ S_args = 1
    /\ Len(S_formals) = 2
    /\ Len(x_out.pairs) = 2
    /\ ~x_out.pairs[1].self
    /\ x_out.pairs[2].self
    /\ x_out.pairs[2].name = "Ts"
    /\ x_out.pairs[2].dvalue = DValue(S_formals[2])

(***************************************************************************)
(* Claims about the priority matrix (checked under SpecRanking)            *)
(***************************************************************************)

\* the partial-specialization search ran
R_ran == req # NoReq /\ Len(loc.matrix) > 0

\* what argument number c is scored by (lines 857-859)
R_type(c) == IF loc.parms[c].type # Null THEN loc.parms[c].type ELSE loc.parms[c].value

\* what does_parm_match gives for argument c against the candidate sym
R_match(sym, c) == does_parm_match(R_type(c), P_pp(sym)[c].type, DollarVar(c))

\* the candidate has the arity of the arguments and every argument matches
R_survives(sym) ==
    /\ Len(P_pp(sym)) = P_len
    /\ \A c \in 1..P_len : R_match(sym, c).match >= PartiallySpecializedMatch

\* the highest priority the survivors have for argument c
R_colmax(c) ==
    CHOOSE m \in {-1} \cup { R_match(loc.survivors[j], c).priority :
                               j \in 1..Len(loc.survivors) } :
        \A x \in {-1} \cup { R_match(loc.survivors[j], c).priority :
                               j \in 1..Len(loc.survivors) } : x <= m

\* C24: only fully matching candidates are ranked: the survivors are the
\* candidates of the right arity whose every argument matches, in discovery
\* order; row k of the priority matrix holds, in every column, the priority
\* does_parm_match gave for the k-th survivor; and the column maxima (hence
\* the flags) are those of the survivors' own priorities, so a discarded
\* candidate contributes to none of them.
C24_RankedRows ==
    R_ran =>
        /\ loc.survivors = SelectSeq(partials, R_survives)
        /\ \A k \in 1..Len(loc.survivors) : \A c \in 1..P_len :
              loc.matrix[(k - 1) * P_len + c] = R_match(loc.survivors[k], c).priority
        /\ Len(loc.survivors) > 1 =>
              \A k \in 1..Len(loc.survivors) : \A c \in 1..P_len :
                 loc.flags[(k - 1) * P_len + c] =
                    (IF R_match(loc.survivors[k], c).priority >= R_colmax(c)
                     THEN 1 ELSE 0)

\* the first candidate matched its first argument and failed the second,
\* the two after it survive: row 1 holds the first survivor's priorities,
\* not the one the discarded candidate wrote there
C24_Witness ==
    /\ R_ran
    /\ Len(partials) = 3
    /\ Len(P_pp(partials[1])) = P_len
    /\ ~R_survives(partials[1])
    /\ R_match(partials[1], 1).priority >= 0
    /\ loc.survivors = <<partials[2], partials[3]>>
    /\ loc.matrix[1] = R_match(partials[2], 1).priority
    /\ loc.matrix[1] # R_match(partials[1], 1).priority

(***************************************************************************)
(* Claims about explicit specializations (checked under SpecExplicit)      *)
(***************************************************************************)

\* the name looked up, name<args> with the defaults filled in, and what the
\* typedefs Integer = int and IntPtr = int * reduce it to
E_tname == loc.tname
E_rname ==
    CASE E_tname = "X<(IntPtr,p.double)>" -> "X<(p.int,p.double)>"
      [] E_tname = "X<(p.Integer,p.double)>" -> "X<(p.int,p.double)>"
      [] OTHER -> E_tname

\* the explicit specializations declared under a name
E_declared(name) ==
    { k \in 1..Len(ExplicitPool) :
        /\ ExplicitPool[k].name = name
        /\ \E j \in 1..Len(symtab) : symtab[j].node.id = ExplicitPool[k].node.id }

E_found == IF E_declared(E_tname) # {} THEN E_declared(E_tname) ELSE E_declared(E_rname)

E_ambiguity ==
    \E k \in 1..Len(diag) : diag[k].kind \in {"AmbigInstantiation", "AmbigUsed", "AmbigIgnored"}

\* C17: if the lookup of name<args> (directly, or after typedef reduction
\* when that changes the name) finds a node of type template, that node is
\* returned without scoring any partial specialization and without an
\* ambiguity warning, whatever the primary's partials list contains.
C17_ExplicitFirst ==
    (left = 0 /\ E_found # {}) =>
        /\ \E k \in E_found : ret = ExplicitPool[k].node.id /\ loc.n.id = ret
        /\ loc.scored = <<>>
        /\ loc.survivors = <<>>
        /\ ~E_ambiguity

\* X<IntPtr, double*> is given template<> class X<int*, double*> although
\* two partial specializations accept the arguments
C17_Witness ==
    /\ left = 0
    /\ ret = "S2"
    /\ E_tname = "X<(IntPtr,p.double)>"
    /\ partials = <<"X<($1,p.double)>", "X<(p.int,$2)>">>

(***************************************************************************)
(* Claims about the walk (checked under SpecWalk)                          *)
(***************************************************************************)

\* the template base name and the instance name of the last expansion
W_tname == x_in.n.name
W_rname == x_in.rname
W_hasAngle(str) == \E i \in 1..Len(str) : SubSeq(str, i, i) = "<"

\* C19 (as stated; violated): for a destructor whose parent is the template
\* root (or an extend child of the root), a "sym:name" that contains '<' is
\* replaced by the instance name rname, and otherwise every occurrence of
\* the template base name tname in it is replaced by rname; a destructor at
\* any deeper nesting is not rewritten at all.
C19_AsStated ==
    pc = "expanded" =>
        \A k \in 1..Len(w_out.dtors) :
            LET d == w_out.dtors[k]
            IN  IF d.rel \in {"child", "extendchild"}
                THEN IF W_hasAngle(d.before) THEN d.after = W_rname
                     ELSE d.after = ReplaceAny(d.before, W_tname, W_rname)
                ELSE d.after = d.before

\* C20: after Swig_cparse_template_expand on a root tagged template, the
\* root's nodeType equals its "templatetype", every nested member template
\* the walk went through is again tagged template, and the walker's static
\* flag is back to 0, so that in a sequence of expansions each one treats
\* its own root as the outermost template.
C20_RetagProtocol ==
    (pc = "expanded" /\ x_in.n.nodeType = "template") =>
        /\ w_out.expanded = 0
        /\ Len(w_out.seen) >= 1
        /\ w_out.seen[1] = [name |-> x_in.n.name, tag |-> x_in.n.templatetype,
                            outermost |-> TRUE]
        /\ \A k \in 2..Len(w_out.seen) :
               w_out.seen[k].tag = "template" /\ ~w_out.seen[k].outermost

\* the second expansion of a run went through a member class template and
\* the member template inside it
C20_Witness ==
    /\ pc = "expanded"
    /\ w_out.count = 2
    /\ Len(w_out.seen) = 3
    /\ w_out.seen[2].name = "M"
    /\ w_out.seen[3].name = "k"

(***************************************************************************)
(* Claims about cparse_fix_function_decl (checked under SpecFix)           *)
(***************************************************************************)

\* the type is a sequence of qualifier and array elements followed by a
\* base: every '.' outside parentheses ends an element that starts with
\* "q(" or "a("
G_elementStarts(t) ==
    {1} \cup { i + 1 : i \in { j \in 1..Len(t) :
                                 /\ SubSeq(t, j, j) = "."
                                 /\ Cardinality({ k \in 1..j : SubSeq(t, k, k) = "(" })
                                    = Cardinality({ k \in 1..j : SubSeq(t, k, k) = ")" }) } }

G_onlyQualifiersAndArrays(t) ==
    \A i \in G_elementStarts(t) :
        (\E j \in G_elementStarts(t) : j > i)
            => SubSeq(t, i, i + 1) \in {"q(", "a("}

\* what the calls appended to decl, and the start of its last element
G_moved == SubSeq(fx.out.decl, Len(fx.in.decl) + 1, Len(fx.out.decl))
G_lastStart ==
    CHOOSE i \in G_elementStarts(G_moved) :
        /\ i <= Len(G_moved)
        /\ \A j \in G_elementStarts(G_moved) : j <= Len(G_moved) => j <= i

\* C21: cparse_fix_function_decl moves to the end of decl the leading part
\* of the type's prefix that remains after stripping all trailing qualifier
\* and array elements: afterwards the type consists only of qualifier and
\* array elements followed by the base, decl+type is the same string as
\* before, and a second call changes nothing.
C21_FixLaw ==
    /\ fx.n >= 1 =>
          /\ G_onlyQualifiersAndArrays(fx.out.type)
          /\ fx.out.decl \o fx.out.type = fx.in.decl \o fx.in.type
          /\ Len(fx.out.decl) >= Len(fx.in.decl)
          /\ SubSeq(fx.out.decl, 1, Len(fx.in.decl)) = fx.in.decl
          /\ Len(G_moved) > 0
                => SubSeq(G_moved, G_lastStart, G_lastStart + 1) \notin {"q(", "a("}
    /\ fx.n >= 2 => fx.out = fx.prev

\* decl "f()." and type "p.q(const).char" become "f().p." and
\* "q(const).char", and stay so
C21_Witness ==
    /\ fx.n = 2
    /\ fx.in = [decl |-> "f().", type |-> "p.q(const).char"]
    /\ fx.out = [decl |-> "f().p.", type |-> "q(const).char"]

====
